---- MODULE Spec2Model ----
(***************************************************************************)
(* SpeechTrack AI: the script-position tracker of the teleprompter, the    *)
(* mode-exclusive session orchestration over the five translation          *)
(* pipelines, and the transcript segmenter of the text pipeline.           *)
(***************************************************************************)
EXTENDS Integers, Sequences, FiniteSets, TLC

\* ------------------------------------------------------------------------
\* Bounds of the model
\* ------------------------------------------------------------------------
MaxTranscriptWords == 3

\* ------------------------------------------------------------------------
\* Characters and words.  A raw word is a non-empty sequence of characters
\* without white space; a transcript is the sequence of its raw words.
\* ------------------------------------------------------------------------
LowerCaseLetters == {"a", "b", "c", "d", "e", "f", "g", "h", "i", "j", "k", "l"}

UpperToLower == [c \in {"A", "B", "C"} |->
                    CASE c = "A" -> "a" [] c = "B" -> "b" [] c = "C" -> "c"]

toLowerCase(c) == IF c \in DOMAIN UpperToLower THEN UpperToLower[c] ELSE c

\* the characters kept by .replace(/[^\w\s]|_/g, ""): \w without "_"
IsKeptChar(c) == c \in LowerCaseLetters \cup {"A", "B", "C"} \cup {"0", "1"}

\* word.toLowerCase().replace(/[^\w\s]|_/g, "")
cleanWord(w) == SelectSeq([k \in 1..Len(w) |-> toLowerCase(w[k])], IsKeptChar)

IsNonEmptyWord(w) == w # <<>>

\* transcript.toLowerCase().replace(...).split(/\s+/).filter(w => w !== "")
transcriptWords(t) == SelectSeq([k \in 1..Len(t) |-> cleanWord(t[k])], IsNonEmptyWord)

\* null / "" : the falsy value of secondLastWord and thirdLastWord
NoWord == <<>>

Min(a, b) == IF a < b THEN a ELSE b
Max(a, b) == IF a > b THEN a ELSE b
SetMin(S) == CHOOSE x \in S : \A y \in S : x <= y

\* ------------------------------------------------------------------------
\* Scripts of the model (raw script words) and the words a speaker may say
\* ------------------------------------------------------------------------
L(c) == <<c>>

\* "the cat sat on the mat"
ScriptCat == <<L("a"), <<"B", ",">>, L("c"), L("d"), L("a"), <<"e", ".">>>>
\* "one two three ... twelve"
ScriptTwelve == <<L("a"), L("b"), L("c"), L("d"), L("e"), L("f"),
                  L("g"), L("h"), L("i"), L("j"), L("k"), L("l")>>
\* a long script with repeated words, a punctuation-only word and a
\* three-word phrase that recurs 12 and 23 words after its first place
ScriptLong == <<L("a"), L("b"), L("c"), L("d"), L("d"), L("-"), L("d"), L("d"),
                L("d"), L("d"), L("d"), L("d"), L("a"), L("b"), L("c"), L("d"),
                L("d"), L("d"), L("d"), L("d"), L("d"), L("d"), L("e"), L("a"),
                L("b"), L("c")>>

Scripts == <<ScriptCat, ScriptTwelve, ScriptLong>>

\* the raw words a speaker may be heard to say, per script
SpokenWords == <<
    {L("a"), <<"B", ",">>, L("e")},
    {L("b"), L("h"), L("i")},
    {L("a"), L("b"), <<"_", "C", ".">>} >>

\* further transcripts: punctuation only, the documented scenarios
\* ("one two", "one two three four five nine", "... seven eight nine"), and
\* the recurring phrase of the long script after an earlier word, and the
\* three words that end at index 22 of the long script
ScenarioTranscripts == <<
    {<<L("-")>>, <<L("a"), L("-")>>, <<<<"B", ",">>, L("-"), L("c")>>},
    {<<L("a"), L("b")>>,
     <<L("a"), L("b"), L("c"), L("d"), L("e"), L("i")>>,
     <<L("a"), L("b"), L("c"), L("d"), L("e"), L("i"), L("g"), L("h"), L("i")>>},
    {<<L("e")>>, <<L("d"), L("e")>>, <<L("b"), L("a"), L("b"), L("c")>>,
     <<L("d"), L("d"), L("e")>>} >>

SeqsUpTo(S, n) == UNION {[1..k -> S] : k \in 0..n}

Transcripts(s) == SeqsUpTo(SpokenWords[s], MaxTranscriptWords) \cup ScenarioTranscripts[s]

VARIABLES
    script,        \* which script the teleprompter was mounted with
    variant,       \* "three": the distance-gated tracker; "two": the two-word tracker
    activeIndex,   \* the cursor
    transcript,    \* transcript of useSpeechRecognition
    trackDirty,    \* the tracking effect is scheduled (one of its deps changed)
    lastEvent,     \* the handler that ran last
    prevIndex      \* the cursor before that handler ran

trackVars == <<script, variant, activeIndex, transcript, trackDirty, prevIndex>>

VARIABLES
    mounted,          \* the Teleprompter is mounted
    showSubtitles,    \* the translation toggle
    translationMode,
    targetLanguage,
    voiceMode,
    pipelineAsrMode,
    isListening,      \* isListening of useSpeechRecognition
    speech,           \* useSpeechRecognition: its refs and its recognition object
    restartTimers,    \* pending setTimeout(..., 100) of the tracking-change effect
    userEvents,       \* how many times the user has operated a control
    live,             \* useGeminiLive
    text,             \* useTextTranslation
    omni,             \* useLocalOmni
    pipeline,         \* useLocalPipeline
    plex,             \* usePersonaPlex
    requests          \* the generateContentStream calls of useTextTranslation that have not ended

orchVars == <<mounted, showSubtitles, translationMode, targetLanguage, voiceMode,
              pipelineAsrMode, isListening, speech, restartTimers, userEvents>>
pipeVars == <<live, text, omni, pipeline, plex, requests>>

vars == <<trackVars, orchVars, pipeVars, lastEvent>>

\* words = script.split(/\s+/).map(... cleanWord ...)
words == [k \in 1..Len(Scripts[script]) |-> cleanWord(Scripts[script][k])]

\* ------------------------------------------------------------------------
\* The tracking effect
\* ------------------------------------------------------------------------
searchWindow == 20

searchStartIndex_fromZero(cursor) == 0

\* the search starting at the cursor of before the last handler
searchStartIndex_beforeLastHandler(cursor) == prevIndex

\* for (let i = activeIndex; ...
searchStartIndex(cursor) == cursor

\* a search that runs to the end of the script
searchEndIndex_wholeScript(ws, cursor) == Len(ws)

searchEndIndex(ws, cursor) == Min(cursor + searchWindow, Len(ws))

lastWord(tw) == tw[Len(tw)]
secondLastWord(tw) == IF Len(tw) > 1 THEN tw[Len(tw) - 1] ELSE NoWord
\* the first word heard in place of the third-last
thirdLastWord_firstHeard(tw) == IF Len(tw) > 2 THEN tw[1] ELSE NoWord
thirdLastWord(tw) == IF Len(tw) > 2 THEN tw[Len(tw) - 2] ELSE NoWord

\* consecutive words matching, looking backwards from script index i (0-based)
matchCount(ws, i, tw) ==
    IF secondLastWord(tw) # NoWord /\ i > 0 /\ ws[i] = secondLastWord(tw)
    THEN IF thirdLastWord(tw) # NoWord /\ i > 1 /\ ws[i - 1] = thirdLastWord(tw)
         THEN 3
         ELSE 2
    ELSE 1

requiredMatches_noThird(distance) == IF distance >= 2 THEN 2 ELSE 1

requiredMatches(distance) ==
    IF distance >= 2 /\ distance <= 10 THEN 2
    ELSE IF distance > 10 THEN 3
    ELSE 1

\* candidate i (0-based) is accepted by the distance-gated tracker
Accepts3(ws, cursor, tw, i) ==
    /\ ws[i + 1] = lastWord(tw)
    /\ matchCount(ws, i, tw) >= requiredMatches(i - cursor)

\* a two-word tracker that takes a match on the last spoken word alone
Accepts2_lastWordOnly(ws, cursor, tw, i) ==
    ws[i + 1] = lastWord(tw)

\* candidate i (0-based) is accepted by the two-word tracker
Accepts2(ws, cursor, tw, i) ==
    /\ ws[i + 1] = lastWord(tw)
    /\ \/ secondLastWord(tw) # NoWord /\ i > 0 /\ ws[i] = secondLastWord(tw)
       \/ cursor = 0

Candidates(v, ws, cursor, tw) ==
    {i \in searchStartIndex(cursor)..(searchEndIndex(ws, cursor) - 1) :
        IF v = "three" THEN Accepts3(ws, cursor, tw, i) ELSE Accepts2(ws, cursor, tw, i)}

\* an evaluation that takes the farthest qualifying candidate
Track_farthestCandidate(v, ws, cursor, t) ==
    LET tw == transcriptWords(t) IN
    IF t = <<>> \/ Len(tw) = 0 THEN cursor
    ELSE LET c == Candidates(v, ws, cursor, tw) IN
         IF c = {} THEN cursor ELSE (CHOOSE i \in c : \A j \in c : j <= i) + 1

\* the cursor after one evaluation of the tracking effect
Track(v, ws, cursor, t) ==
    LET tw == transcriptWords(t) IN
    IF t = <<>> \/ Len(tw) = 0 THEN cursor
    ELSE LET c == Candidates(v, ws, cursor, tw) IN
         IF c = {} THEN cursor ELSE SetMin(c) + 1

TrackingEffect ==
    /\ trackDirty
    /\ activeIndex' = Track(variant, words, activeIndex, transcript)
    /\ trackDirty' = (activeIndex' # activeIndex)
    /\ UNCHANGED <<script, variant, transcript>>
    /\ lastEvent' = "TrackingEffect"
    /\ prevIndex' = activeIndex
    /\ UNCHANGED <<orchVars, pipeVars>>

\* recognition.onresult: setTranscript(finalTranscript + interimTranscript)
SetTranscript(t) ==
    /\ ~trackDirty
    /\ t # transcript
    /\ transcript' = t
    /\ trackDirty' = TRUE
    /\ UNCHANGED <<script, variant, activeIndex>>
    /\ lastEvent' = "SetTranscript"
    /\ prevIndex' = activeIndex
    /\ UNCHANGED <<orchVars, pipeVars>>

\* onClick={() => setActiveIndex(i)}
ClickWord(i) ==
    /\ ~trackDirty
    /\ activeIndex' = i
    /\ trackDirty' = (i # activeIndex)
    /\ UNCHANGED <<script, variant, transcript>>
    /\ lastEvent' = "ClickWord"
    /\ prevIndex' = activeIndex
    /\ UNCHANGED <<orchVars, pipeVars>>

arrowRightTarget_unclamped(ws, cursor) == cursor + 1

\* prev => Math.min(prev + 1, words.length - 1)
arrowRightTarget(ws, cursor) == Min(cursor + 1, Len(ws) - 1)

\* handleKeyDown, ArrowRight / ArrowDown (no PDF attached)
ArrowRight ==
    /\ ~trackDirty
    /\ activeIndex' = arrowRightTarget(words, activeIndex)
    /\ trackDirty' = (activeIndex' # activeIndex)
    /\ UNCHANGED <<script, variant, transcript>>
    /\ lastEvent' = "ArrowRight"
    /\ prevIndex' = activeIndex
    /\ UNCHANGED <<orchVars, pipeVars>>

\* handleKeyDown, ArrowLeft / ArrowUp (no PDF attached)
ArrowLeft ==
    /\ ~trackDirty
    /\ activeIndex' = Max(activeIndex - 1, 0)
    /\ trackDirty' = (activeIndex' # activeIndex)
    /\ UNCHANGED <<script, variant, transcript>>
    /\ lastEvent' = "ArrowLeft"
    /\ prevIndex' = activeIndex
    /\ UNCHANGED <<orchVars, pipeVars>>

\* a restart that leaves the transcript as it is
Restart_keepsTranscript ==
    /\ ~trackDirty
    /\ activeIndex' = 0
    /\ trackDirty' = (activeIndex # 0)
    /\ UNCHANGED <<script, variant, transcript>>
    /\ lastEvent' = "Restart"
    /\ prevIndex' = activeIndex
    /\ UNCHANGED <<orchVars, pipeVars>>

\* Restart Presentation: setActiveIndex(0); resetTranscript()
Restart ==
    /\ ~trackDirty
    /\ activeIndex' = 0
    /\ transcript' = <<>>
    /\ trackDirty' = (activeIndex # 0 \/ transcript # <<>>)
    /\ UNCHANGED <<script, variant>>
    /\ lastEvent' = "Restart"
    /\ prevIndex' = activeIndex
    /\ UNCHANGED <<orchVars, pipeVars>>

\* ------------------------------------------------------------------------
\* The translation pipelines.  Every connect/start creates an attempt: its
\* microphone request and its socket or live session, which live on in the
\* callbacks' closures whatever the hook's refs hold.
\* ------------------------------------------------------------------------
MaxAttempts == 2
MaxTimers == 1
MaxUserEvents == 5

Attempts == 1..MaxAttempts

Modes == {"live", "text", "local-omni", "local-pipeline", "personaplex"}
Languages == {"French", "Spanish"}

\* phase: "unused", "awaitMic" (getUserMedia pending before the socket exists),
\*        "connecting", "open", "closing", "closed"
\* stream: "none", "pending" (getUserMedia pending after the socket opened),
\*         "live", "stopped"
\* abandoned: stop/disconnect ran while the attempt was only partly done
\* openedAfterStop: its onopen then made the pipeline report connected/active
\* asrMode, targetLanguage: the options of the start whose closures hold them
\*        (kept for the local pipeline)
UnusedAttempt == [phase |-> "unused", stream |-> "none", abandoned |-> FALSE,
                  openedAfterStop |-> FALSE, closeReq |-> FALSE, asrMode |-> "none",
                  targetLanguage |-> "none"]

HasFreeAttempt(att) == \E a \in Attempts : att[a].phase = "unused"
FreeAttempt(att) == SetMin({a \in Attempts : att[a].phase = "unused"})

IsPartial(r) == r.phase \in {"awaitMic", "connecting"} \/ r.stream = "pending"

\* forget attempts that are over and hold nothing
Tidy(att, refs) ==
    [a \in Attempts |->
        IF att[a].phase = "closed" /\ att[a].stream \in {"none", "stopped"} /\ a \notin refs
        THEN UnusedAttempt ELSE att[a]]

\* a state setter of an unmounted component does nothing
Committed(old, new, flags) ==
    IF mounted THEN new
    ELSE [f \in DOMAIN new |-> IF f \in flags THEN old[f] ELSE new[f]]

\* ---------------- useGeminiLive ----------------
ConnFlags == {"isConnected", "isConnecting"}

LiveInit == [isConnected |-> FALSE, isConnecting |-> FALSE, sessionRef |-> 0,
             mediaStreamRef |-> 0, audioContextRef |-> FALSE,
             playbackContextRef |-> FALSE, att |-> [a \in Attempts |-> UnusedAttempt]]

LiveDisconnect_keepsStream(l) ==
    [l EXCEPT !.sessionRef = 0, !.audioContextRef = FALSE, !.playbackContextRef = FALSE,
              !.isConnected = FALSE, !.isConnecting = FALSE]

\* disconnect
LiveDisconnect(l) ==
    LET att1 == [a \in Attempts |->
                    LET r == l.att[a] IN
                    [r EXCEPT !.stream = IF a = l.mediaStreamRef THEN "stopped" ELSE @,
                              \* sessionRef.current.then(session => session.close())
                              !.closeReq = IF a = l.sessionRef THEN TRUE ELSE @,
                              !.phase = IF a = l.sessionRef /\ r.phase = "open"
                                        THEN "closing" ELSE @,
                              !.abandoned = IF IsPartial(r) THEN TRUE ELSE @]]
    IN  [l EXCEPT !.att = Tidy(att1, {}),
                  !.mediaStreamRef = 0, !.audioContextRef = FALSE,
                  !.playbackContextRef = FALSE, !.sessionRef = 0,
                  !.isConnected = FALSE, !.isConnecting = FALSE]

\* connect, up to the await of getUserMedia
LiveConnect(l) ==
    LET l1 == IF l.sessionRef # 0 THEN LiveDisconnect(l) ELSE l
        a == FreeAttempt(l1.att)
    IN  [l1 EXCEPT !.isConnecting = TRUE, !.audioContextRef = TRUE,
                   !.att[a] = [UnusedAttempt EXCEPT !.phase = "awaitMic"]]

\* getUserMedia resolves: the rest of connect's try block
LiveMicGranted(a) ==
    /\ live.att[a].phase = "awaitMic"
    /\ live' = [live EXCEPT !.mediaStreamRef = a, !.sessionRef = a,
                            !.att[a].phase = "connecting", !.att[a].stream = "live"]
    /\ lastEvent' = "LiveMicGranted"
    /\ UNCHANGED <<trackVars, orchVars, text, omni, pipeline, plex, requests>>

\* getUserMedia rejects: connect's catch block
LiveMicDenied(a) ==
    /\ live.att[a].phase = "awaitMic"
    /\ live' = Committed(live, [live EXCEPT !.isConnected = FALSE, !.isConnecting = FALSE,
                                            !.att[a] = UnusedAttempt], ConnFlags)
    /\ lastEvent' = "LiveMicDenied"
    /\ UNCHANGED <<trackVars, orchVars, text, omni, pipeline, plex, requests>>

\* callbacks.onopen
LiveOnOpen(a) ==
    /\ live.att[a].phase = "connecting"
    /\ live' = Committed(live,
                 [live EXCEPT !.isConnected = TRUE, !.isConnecting = FALSE,
                              !.att[a].openedAfterStop = mounted /\ live.att[a].abandoned,
                              !.att[a].phase = IF live.att[a].closeReq THEN "closing" ELSE "open"],
                 ConnFlags)
    /\ lastEvent' = "LiveOnOpen"
    /\ UNCHANGED <<trackVars, orchVars, text, omni, pipeline, plex, requests>>

\* an onerror that also switches the text pipeline off
LiveOnError_stopsText(a) ==
    /\ live.att[a].phase \in {"connecting", "open"}
    /\ live' = Committed(live, [live EXCEPT !.isConnected = FALSE,
                                            !.att[a].phase = "closing"], ConnFlags)
    /\ text' = [text EXCEPT !.isActiveRef = FALSE, !.isActive = FALSE]
    /\ lastEvent' = "LiveOnError"
    /\ UNCHANGED <<trackVars, orchVars, omni, pipeline, plex, requests>>

\* callbacks.onerror; the session's close event follows it
LiveOnError(a) ==
    /\ live.att[a].phase \in {"connecting", "open"}
    /\ live' = Committed(live, [live EXCEPT !.isConnected = FALSE,
                                            !.att[a].phase = "closing"], ConnFlags)
    /\ lastEvent' = "LiveOnError"
    /\ UNCHANGED <<trackVars, orchVars, text, omni, pipeline, plex, requests>>

\* an onclose that leaves the connecting flag as it is
LiveOnClose_keepsConnecting(a) ==
    /\ live.att[a].phase \in {"open", "closing"}
    /\ LET l1 == [live EXCEPT !.isConnected = FALSE, !.att[a].phase = "closed"]
       IN live' = Committed(live, [l1 EXCEPT !.att = Tidy(l1.att, {l1.sessionRef, l1.mediaStreamRef})],
                            ConnFlags)
    /\ lastEvent' = "LiveOnClose"
    /\ UNCHANGED <<trackVars, orchVars, text, omni, pipeline, plex, requests>>

\* callbacks.onclose
LiveOnClose(a) ==
    /\ live.att[a].phase \in {"open", "closing"}
    /\ LET l1 == [live EXCEPT !.isConnected = FALSE, !.isConnecting = FALSE,
                              !.att[a].phase = "closed"]
       IN live' = Committed(live, [l1 EXCEPT !.att = Tidy(l1.att, {l1.sessionRef, l1.mediaStreamRef})],
                            ConnFlags)
    /\ lastEvent' = "LiveOnClose"
    /\ UNCHANGED <<trackVars, orchVars, text, omni, pipeline, plex, requests>>

\* callbacks.onmessage with an audio part: playAudioChunk
LiveOnAudio(a) ==
    /\ live.att[a].phase \in {"open", "closing"}
    /\ ~live.playbackContextRef
    /\ live' = [live EXCEPT !.playbackContextRef = TRUE]
    /\ lastEvent' = "LiveOnAudio"
    /\ UNCHANGED <<trackVars, orchVars, text, omni, pipeline, plex, requests>>

\* a caller invokes connect(options)
ConnectLive ==
    /\ HasFreeAttempt((IF live.sessionRef # 0 THEN LiveDisconnect(live) ELSE live).att)
    /\ live' = Committed(live, LiveConnect(live), ConnFlags)
    /\ lastEvent' = "ConnectLive"
    /\ UNCHANGED <<trackVars, orchVars, text, omni, pipeline, plex, requests>>

\* a caller invokes disconnect()
DisconnectLive ==
    /\ live' = Committed(live, LiveDisconnect(live), ConnFlags)
    /\ lastEvent' = "DisconnectLive"
    /\ UNCHANGED <<trackVars, orchVars, text, omni, pipeline, plex, requests>>

\* ---------------- usePersonaPlex ----------------
PlexInit == [isConnected |-> FALSE, isConnecting |-> FALSE, wsRef |-> 0,
             mediaStreamRef |-> 0, audioContextRef |-> FALSE,
             playbackContextRef |-> FALSE, att |-> [a \in Attempts |-> UnusedAttempt]]

\* disconnect.  wsRef.current.send() throws on a socket that is still
\* CONNECTING, so the close() after it in the same try block is skipped.
PlexDisconnect(x) ==
    LET att1 == [a \in Attempts |->
                    LET r == x.att[a] IN
                    [r EXCEPT !.stream = IF a = x.mediaStreamRef THEN "stopped" ELSE @,
                              !.phase = IF a = x.wsRef /\ r.phase = "open"
                                        THEN "closing" ELSE @,
                              !.abandoned = IF IsPartial(r) THEN TRUE ELSE @]]
    IN  [x EXCEPT !.att = Tidy(att1, {}),
                  !.wsRef = 0, !.mediaStreamRef = 0, !.audioContextRef = FALSE,
                  !.playbackContextRef = FALSE,
                  !.isConnected = FALSE, !.isConnecting = FALSE]

\* connect, up to the await of getUserMedia
PlexConnect(x) ==
    LET x1 == IF x.wsRef # 0 THEN PlexDisconnect(x) ELSE x
        a == FreeAttempt(x1.att)
    IN  [x1 EXCEPT !.isConnecting = TRUE, !.audioContextRef = TRUE,
                   !.att[a] = [UnusedAttempt EXCEPT !.phase = "awaitMic"]]

\* getUserMedia resolves: new WebSocket, wsRef.current = ws
PlexMicGranted(a) ==
    /\ plex.att[a].phase = "awaitMic"
    /\ plex' = [plex EXCEPT !.mediaStreamRef = a, !.wsRef = a,
                            !.att[a].phase = "connecting", !.att[a].stream = "live"]
    /\ lastEvent' = "PlexMicGranted"
    /\ UNCHANGED <<trackVars, orchVars, live, text, omni, pipeline, requests>>

PlexMicDenied(a) ==
    /\ plex.att[a].phase = "awaitMic"
    /\ plex' = Committed(plex, [plex EXCEPT !.isConnected = FALSE, !.isConnecting = FALSE,
                                            !.att[a] = UnusedAttempt], ConnFlags)
    /\ lastEvent' = "PlexMicDenied"
    /\ UNCHANGED <<trackVars, orchVars, live, text, omni, pipeline, requests>>

\* ws.onopen
PlexOnOpen(a) ==
    /\ plex.att[a].phase = "connecting"
    /\ plex' = Committed(plex, [plex EXCEPT !.isConnected = TRUE, !.isConnecting = FALSE,
                                            !.att[a].openedAfterStop = mounted /\ plex.att[a].abandoned, !.att[a].phase = "open"],
                         ConnFlags)
    /\ lastEvent' = "PlexOnOpen"
    /\ UNCHANGED <<trackVars, orchVars, live, text, omni, pipeline, requests>>

\* ws.onerror; the socket's close event follows it
PlexOnError(a) ==
    /\ plex.att[a].phase \in {"connecting", "open"}
    /\ plex' = Committed(plex, [plex EXCEPT !.isConnected = FALSE, !.isConnecting = FALSE,
                                            !.att[a].phase = "closing"], ConnFlags)
    /\ lastEvent' = "PlexOnError"
    /\ UNCHANGED <<trackVars, orchVars, live, text, omni, pipeline, requests>>

\* ws.onclose
PlexOnClose(a) ==
    /\ plex.att[a].phase \in {"open", "closing"}
    /\ LET x1 == [plex EXCEPT !.isConnected = FALSE, !.isConnecting = FALSE,
                              !.att[a].phase = "closed"]
       IN plex' = Committed(plex, [x1 EXCEPT !.att = Tidy(x1.att, {x1.wsRef, x1.mediaStreamRef})],
                            ConnFlags)
    /\ lastEvent' = "PlexOnClose"
    /\ UNCHANGED <<trackVars, orchVars, live, text, omni, pipeline, requests>>

\* ws.onmessage, type audio: playAudioChunk
PlexOnAudio(a) ==
    /\ plex.att[a].phase \in {"open", "closing"}
    /\ ~plex.playbackContextRef
    /\ plex' = [plex EXCEPT !.playbackContextRef = TRUE]
    /\ lastEvent' = "PlexOnAudio"
    /\ UNCHANGED <<trackVars, orchVars, live, text, omni, pipeline, requests>>

\* ---------------- useLocalPipeline ----------------
\* The displayed translation is read by nothing in the hook.  A specification
\* that does not follow it starts with this value, which every update leaves
\* as it is; one that follows it starts from the empty text.
Unobserved == <<"unobserved">>
MaxShown == 6
\* setTranslatedText(prev => prev + s)
shownWith(prev, s) == IF prev = Unobserved THEN prev ELSE prev \o s

PipelineFlags == {"isActive", "isSpeaking", "translatedText"}

\* Playback times are in tenths of a second.
MaxClips == 3
MaxPlaybackTime == 20
PlaybackStep == 5
ClipDurations == {2, 5, 10}

PipelineInit == [isActive |-> FALSE, isActiveRef |-> FALSE, wsRef |-> 0,
                 recognitionRef |-> FALSE, mediaStreamRef |-> 0,
                 audioContextRef |-> FALSE, playbackContextRef |-> FALSE,
                 asrModeRef |-> "local", att |-> [a \in Attempts |-> UnusedAttempt],
                 nextPlayTimeRef |-> 0, activeSourceCountRef |-> 0, isSpeaking |-> FALSE,
                 currentTime |-> 0, clips |-> <<>>,
                 committedTextRef |-> Unobserved, draftTextRef |-> Unobserved,
                 translatedText |-> Unobserved]

\* stop.  wsRef.current.send() throws on a socket that is still CONNECTING,
\* so the close() after it in the same try block is skipped.
PipelineStop(q) ==
    LET att1 == [a \in Attempts |->
                    LET r == q.att[a] IN
                    [r EXCEPT !.stream = IF a = q.mediaStreamRef THEN "stopped" ELSE @,
                              !.phase = IF a = q.wsRef /\ r.phase = "open"
                                        THEN "closing" ELSE @,
                              !.abandoned = IF IsPartial(r) THEN TRUE ELSE @]]
    IN  [q EXCEPT !.att = Tidy(att1, {}), !.isActiveRef = FALSE, !.wsRef = 0,
                  !.recognitionRef = FALSE, !.mediaStreamRef = 0,
                  !.audioContextRef = FALSE, !.playbackContextRef = FALSE,
                  !.currentTime = 0, !.clips = <<>>,
                  !.nextPlayTimeRef = 0, !.activeSourceCountRef = 0,
                  !.isActive = FALSE, !.isSpeaking = FALSE]

\* start: startAsync runs to its end, new WebSocket and wsRef.current = ws
PipelineStart(q, options) ==
    LET q1 == IF q.wsRef # 0 THEN PipelineStop(q) ELSE q
        a == FreeAttempt(q1.att)
    IN  [q1 EXCEPT !.asrModeRef = options.asrMode, !.wsRef = a,
                   !.translatedText = IF @ = Unobserved THEN @ ELSE <<>>,
                   !.committedTextRef = IF @ = Unobserved THEN @ ELSE <<>>,
                   !.draftTextRef = IF @ = Unobserved THEN @ ELSE <<>>,
                   !.att[a] = [UnusedAttempt EXCEPT !.phase = "connecting",
                                                    !.asrMode = options.asrMode,
                                                    !.targetLanguage = options.targetLanguage]]

\* ws.onopen: browser ASR starts recognition, local ASR asks for the microphone
PipelineOnOpen(a) ==
    /\ pipeline.att[a].phase = "connecting"
    /\ pipeline' = Committed(pipeline,
          [pipeline EXCEPT !.isActiveRef = TRUE, !.isActive = TRUE,
                           !.att[a].openedAfterStop = mounted /\ pipeline.att[a].abandoned, !.att[a].phase = "open",
                           !.recognitionRef = IF pipeline.att[a].asrMode = "browser" THEN TRUE ELSE @,
                           !.audioContextRef = IF pipeline.att[a].asrMode = "local" THEN TRUE ELSE @,
                           !.att[a].stream = IF pipeline.att[a].asrMode = "local" THEN "pending" ELSE @],
          PipelineFlags)
    /\ lastEvent' = "PipelineOnOpen"
    /\ UNCHANGED <<trackVars, orchVars, live, text, omni, plex, requests>>

\* startAudioCapture: getUserMedia resolves
PipelineMicGranted(a) ==
    /\ pipeline.att[a].stream = "pending"
    /\ pipeline' = [pipeline EXCEPT !.mediaStreamRef = a, !.att[a].stream = "live"]
    /\ lastEvent' = "PipelineMicGranted"
    /\ UNCHANGED <<trackVars, orchVars, live, text, omni, plex, requests>>

\* startAudioCapture: getUserMedia rejects
PipelineMicDenied(a) ==
    /\ pipeline.att[a].stream = "pending"
    /\ LET q1 == [pipeline EXCEPT !.att[a].stream = "none"]
       IN pipeline' = [q1 EXCEPT !.att = Tidy(q1.att, {q1.wsRef, q1.mediaStreamRef})]
    /\ lastEvent' = "PipelineMicDenied"
    /\ UNCHANGED <<trackVars, orchVars, live, text, omni, plex, requests>>

\* ws.onerror; the socket's close event follows it
PipelineOnError(a) ==
    /\ pipeline.att[a].phase \in {"connecting", "open"}
    /\ pipeline' = Committed(pipeline, [pipeline EXCEPT !.isActive = FALSE,
                                                        !.att[a].phase = "closing"], PipelineFlags)
    /\ lastEvent' = "PipelineOnError"
    /\ UNCHANGED <<trackVars, orchVars, live, text, omni, plex, requests>>

\* ws.onclose
PipelineOnClose(a) ==
    /\ pipeline.att[a].phase \in {"open", "closing"}
    /\ LET q1 == [pipeline EXCEPT !.isActive = FALSE, !.att[a].phase = "closed"]
       IN pipeline' = Committed(pipeline,
                        [q1 EXCEPT !.att = Tidy(q1.att, {q1.wsRef, q1.mediaStreamRef})],
                        PipelineFlags)
    /\ lastEvent' = "PipelineOnClose"
    /\ UNCHANGED <<trackVars, orchVars, live, text, omni, plex, requests>>

\* the start time that ignores what is already scheduled
startTimeOf_now(currentTime, nextPlayTime) == currentTime

\* Math.max(currentTime, nextPlayTimeRef.current)
startTimeOf(currentTime, nextPlayTime) == Max(currentTime, nextPlayTime)

\* playAudioChunk with a chunk of duration d.  currentTime is the clock of the
\* playback context, clips the sources scheduled on it: arrived is the clock
\* when the chunk came, ended whether onended has run.
playAudioChunk(q, d) ==
    LET q1 == IF ~q.playbackContextRef
              THEN [q EXCEPT !.playbackContextRef = TRUE, !.currentTime = 0, !.clips = <<>>]
              ELSE q
        startTime == startTimeOf(q1.currentTime, q1.nextPlayTimeRef)
    IN  [q1 EXCEPT !.clips = Append(@, [arrived |-> q1.currentTime, start |-> startTime,
                                        duration |-> d, ended |-> FALSE]),
                   !.nextPlayTimeRef = startTime + d,
                   !.activeSourceCountRef = @ + 1,
                   !.isSpeaking = TRUE]

\* source.onended that clears the flag whatever else is scheduled
sourceEnded_noCount(q, k) ==
    [q EXCEPT !.clips[k].ended = TRUE, !.activeSourceCountRef = Max(@ - 1, 0),
              !.isSpeaking = FALSE]

\* source.onended of clip k
sourceEnded(q, k) ==
    LET count == q.activeSourceCountRef - 1
    IN  IF count <= 0
        THEN [q EXCEPT !.clips[k].ended = TRUE, !.activeSourceCountRef = 0,
                       !.isSpeaking = FALSE]
        ELSE [q EXCEPT !.clips[k].ended = TRUE, !.activeSourceCountRef = count]

\* ws.onmessage, type audio: playAudioChunk
PipelineOnAudio(a, d) ==
    /\ pipeline.att[a].phase \in {"open", "closing"}
    /\ Len(pipeline.clips) < MaxClips
    /\ pipeline' = Committed(pipeline, playAudioChunk(pipeline, d), PipelineFlags)
    /\ lastEvent' = "PipelineOnAudio"
    /\ UNCHANGED <<trackVars, orchVars, live, text, omni, plex, requests>>

\* the types of the server messages that carry translated text, and the
\* texts they carry
TextMessageTypes == {"translated_text_draft", "translated_text_final", "translated_text"}
MessageTexts == {<<"a">>, <<"b">>}

\* ws.onmessage, the cases translated_text_draft, translated_text_final and
\* translated_text
onTextMessage(q, type, data) ==
    CASE type = "translated_text_draft" ->
           [q EXCEPT !.draftTextRef = @ \o data,
                     !.translatedText = q.committedTextRef \o q.draftTextRef \o data]
      [] type = "translated_text_final" ->
           [q EXCEPT !.committedTextRef = @ \o data \o <<" ">>, !.draftTextRef = <<>>,
                     !.translatedText = q.committedTextRef \o data \o <<" ">>]
      [] type = "translated_text" ->
           [q EXCEPT !.committedTextRef = @ \o data,
                     !.translatedText = q.committedTextRef \o data]

\* a server message with translated text arrives on the socket of attempt a
PipelineOnText(a, type, data) ==
    /\ pipeline.att[a].phase = "open"
    /\ pipeline.translatedText # Unobserved
    /\ Len(pipeline.committedTextRef) + Len(pipeline.draftTextRef) + Len(data) < MaxShown
    /\ pipeline' = Committed(pipeline, onTextMessage(pipeline, type, data), PipelineFlags)
    /\ lastEvent' = "PipelineOnText"
    /\ UNCHANGED <<trackVars, orchVars, live, text, omni, plex, requests>>

\* a scheduled source has played to its end: its onended runs
PipelineSourceEnded(k) ==
    /\ k \in DOMAIN pipeline.clips
    /\ ~pipeline.clips[k].ended
    /\ pipeline.currentTime >= pipeline.clips[k].start + pipeline.clips[k].duration
    /\ pipeline' = Committed(pipeline, sourceEnded(pipeline, k), PipelineFlags)
    /\ lastEvent' = "PipelineSourceEnded"
    /\ UNCHANGED <<trackVars, orchVars, live, text, omni, plex, requests>>

\* the clock of the playback context advances
PlaybackTimePasses ==
    /\ pipeline.playbackContextRef
    /\ pipeline.currentTime + PlaybackStep <= MaxPlaybackTime
    /\ pipeline' = [pipeline EXCEPT !.currentTime = @ + PlaybackStep]
    /\ lastEvent' = "PlaybackTimePasses"
    /\ UNCHANGED <<trackVars, orchVars, live, text, omni, plex, requests>>

\* a caller invokes start(targetLanguage, "browser")
StartPipeline ==
    /\ HasFreeAttempt((IF pipeline.wsRef # 0 THEN PipelineStop(pipeline) ELSE pipeline).att)
    /\ pipeline' = PipelineStart(pipeline, [targetLanguage |-> targetLanguage,
                                             asrMode |-> "browser"])
    /\ lastEvent' = "StartPipeline"
    /\ UNCHANGED <<trackVars, orchVars, live, text, omni, plex, requests>>

\* a caller invokes stop()
StopPipeline ==
    /\ pipeline' = PipelineStop(pipeline)
    /\ lastEvent' = "StopPipeline"
    /\ UNCHANGED <<trackVars, orchVars, live, text, omni, plex, requests>>

\* ---------------- useLocalOmni ----------------
\* the pipeline contract: connect stops a running session first, disconnect
\* releases everything and may be called at any time
OmniInit == [isConnected |-> FALSE, isConnecting |-> FALSE]

OmniDisconnect(o) == [o EXCEPT !.isConnected = FALSE, !.isConnecting = FALSE]

OmniConnect(o) == [OmniDisconnect(o) EXCEPT !.isConnecting = TRUE]

OmniOnOpen ==
    /\ omni.isConnecting
    /\ omni' = Committed(omni, [omni EXCEPT !.isConnected = TRUE, !.isConnecting = FALSE],
                         ConnFlags)
    /\ lastEvent' = "OmniOnOpen"
    /\ UNCHANGED <<trackVars, orchVars, live, text, pipeline, plex, requests>>

OmniOnClose ==
    /\ omni.isConnecting \/ omni.isConnected
    /\ omni' = Committed(omni, OmniDisconnect(omni), ConnFlags)
    /\ lastEvent' = "OmniOnClose"
    /\ UNCHANGED <<trackVars, orchVars, live, text, pipeline, plex, requests>>

\* ---------------- useTextTranslation ----------------
\* Strings are sequences of characters.
MaxRequests == 2
MaxUtterances == 3
IntervalsPerTick == 10

TickMs == 500
StuckThresholdMs == 10000
TimeTriggerMs == 2000
HealthCheckMs == 30000
AbortTimeoutMs == 15000
PrefixBound == 50
MinWordsOnFeed == 5
MinWordsOnTimer == 2

Requests == 1..MaxRequests

\* "Hello there, how are you today friend"
Utterance == <<"H", "e", "l", "l", "o", " ", "t", "h", "e", "r", "e", ",", " ",
               "h", "o", "w", " ", "a", "r", "e", " ", "y", "o", "u", " ",
               "t", "o", "d", "a", "y", " ", "f", "r", "i", "e", "n", "d">>
\* what the engine reports after it has reset: "so we go"
ResetUtterance == <<"s", "o", " ", "w", "e", " ", "g", "o">>

\* the first n words of u
WordPrefix(u, n) ==
    LET ends == {k \in 1..Len(u) : k = Len(u) \/ u[k + 1] = " "}
    IN  SubSeq(u, 1, CHOOSE k \in ends : Cardinality({e \in ends : e <= k}) = n)

\* the snapshots the recognition engine reports
FeedTexts == {WordPrefix(Utterance, n) : n \in {1, 2, 4, 7}}
             \cup {WordPrefix(ResetUtterance, n) : n \in {1, 3}}

IsSpace(c) == c = " "

startsWith(str, prefix) ==
    Len(prefix) <= Len(str) /\ SubSeq(str, 1, Len(prefix)) = prefix

\* str.slice(n)
slice(str, n) == SubSeq(str, n + 1, Len(str))

\* str.trim()
trim(str) ==
    LET solid == {k \in 1..Len(str) : ~IsSpace(str[k])}
    IN  IF solid = {} THEN <<>>
        ELSE SubSeq(str, SetMin(solid), CHOOSE k \in solid : \A j \in solid : j <= k)

\* /[.!?,;:]/.test(str)
hasCompleteSentence(str) == \E k \in 1..Len(str) : str[k] \in {".", "!", "?", ",", ";", ":"}

\* str.split(/\s+/).length, for a trimmed non-empty string
wordCount(str) ==
    Cardinality({k \in 1..Len(str) : ~IsSpace(str[k]) /\ (k = 1 \/ IsSpace(str[k - 1]))})

\* abortIn: what is left of the request's setTimeout(..., 15000)
\* aborted: that timer has fired and called abortController.abort()
\* fullTranslation: the chunk texts the call has added up
NoRequest == [state |-> "free", abortIn |-> 0, aborted |-> FALSE, fullTranslation |-> <<>>]

\* the texts of the chunks of a translation stream: "a ", "b", " "
ChunkTexts == {<<"a", " ">>, <<"b">>, <<" ">>}

TextFlags == {"isActive", "isSpeaking", "error", "translatedText"}

TextInit == [isActive |-> FALSE, isActiveRef |-> FALSE, recognitionRef |-> FALSE,
             useExternalTranscriptRef |-> FALSE, ttsModeRef |-> "browser",
             targetLanguageRef |-> "French", isSpeaking |-> FALSE,
             lastProcessedRef |-> <<>>, fullTranscriptRef |-> <<>>,
             isTranslatingRef |-> FALSE, sinceProcessed |-> 0, sinceActivity |-> 0,
             error |-> FALSE,
             ttsQueueRef |-> <<>>, isTTSSpeakingRef |-> FALSE,
             utterances |-> 0, playing |-> {},
             translatedText |-> Unobserved]

AgeAfter(age, cap) == Min(age + TickMs, cap + TickMs)

\* startRecognition
startRecognition(t) ==
    IF ~t.isActiveRef THEN t ELSE [t EXCEPT !.recognitionRef = TRUE]

\* start
TextStart(t, options) ==
    LET t1 == [t EXCEPT !.recognitionRef = FALSE, !.error = FALSE,
                        !.translatedText = IF @ = Unobserved THEN @ ELSE <<>>,
                        !.lastProcessedRef = <<>>, !.sinceProcessed = 0,
                        !.sinceActivity = 0, !.fullTranscriptRef = <<>>,
                        !.isTranslatingRef = FALSE,
                        !.ttsQueueRef = <<>>, !.isTTSSpeakingRef = FALSE,
                        !.targetLanguageRef = options.targetLanguage,
                        !.useExternalTranscriptRef = options.useExternalTranscript,
                        !.ttsModeRef = options.ttsMode,
                        !.isActiveRef = TRUE, !.isActive = TRUE]
    IN  IF ~options.useExternalTranscript THEN startRecognition(t1) ELSE t1

\* speechSynthesis.cancel(): the engine drops what it speaks and what it
\* holds; the utterances' end or error events are still to come
cancelled(playing) ==
    {[u EXCEPT !.cancelled = IF u.mode = "browser" THEN TRUE ELSE @] : u \in playing}

\* stop
TextStop(t) ==
    [t EXCEPT !.isActiveRef = FALSE, !.recognitionRef = FALSE, !.isActive = FALSE,
              !.playing = IF t.ttsModeRef = "browser" THEN cancelled(@) ELSE @,
              !.ttsQueueRef = <<>>, !.isTTSSpeakingRef = FALSE,
              !.isTranslatingRef = FALSE, !.isSpeaking = FALSE]

\* processQueue, up to its await.  The queue holds the translations by their
\* number; playing holds the calls of processQueue that are at their await:
\* the utterance handed to generateContent and playGeminiAudio, or to
\* speechSynthesis.speak.
processQueue(t) ==
    IF t.isTTSSpeakingRef \/ t.ttsQueueRef = <<>> THEN t
    ELSE [t EXCEPT !.ttsQueueRef = Tail(@),
                   !.isTTSSpeakingRef = TRUE,
                   !.isSpeaking = TRUE,
                   !.playing = @ \cup {[id |-> Head(t.ttsQueueRef).id,
                                        text |-> Head(t.ttsQueueRef).text,
                                        mode |-> t.ttsModeRef, cancelled |-> FALSE]}]

\* the guard of translateText on a request in flight: TRUE when the call goes on
translateGoesOn(t) ==
    ~t.isTranslatingRef \/ t.sinceActivity > StuckThresholdMs

\* translateText, up to the await of generateContentStream
translateText(st, content) ==
    IF trim(content) = <<>> THEN st
    ELSE IF ~translateGoesOn(st.text) THEN st
    ELSE LET free == {x \in Requests : st.requests[x].state = "free"}
         IN  IF free = {} THEN [st EXCEPT !.blocked = TRUE]
             ELSE [st EXCEPT !.text.isTranslatingRef = TRUE, !.text.sinceProcessed = 0,
                             !.text.sinceActivity = 0,
                             !.requests[SetMin(free)] = [state |-> "running", abortIn |-> AbortTimeoutMs,
                                                         aborted |-> FALSE,
                                                         fullTranslation |-> <<>>]]

\* a diff that never takes the transcript for a reset
newContentOf_alwaysSuffix(tr, lastProcessed) ==
    trim(slice(tr, Len(lastProcessed)))

\* the new content of a transcript beyond the watermark
newContentOf(tr, lastProcessed) ==
    IF Len(tr) < Len(lastProcessed)
       \/ ~startsWith(tr, SubSeq(lastProcessed, 1, Min(PrefixBound, Len(lastProcessed))))
    THEN trim(tr)
    ELSE trim(slice(tr, Len(lastProcessed)))

\* the trigger without the word-count branch
feedTriggers_punctuationOnly(newContent) ==
    hasCompleteSentence(newContent)

feedTriggers(newContent) ==
    hasCompleteSentence(newContent) \/ wordCount(newContent) >= MinWordsOnFeed

\* processTranscript
processTranscript(st, tr) ==
    IF tr = <<>> THEN st
    ELSE LET st1 == [st EXCEPT !.text.fullTranscriptRef = tr]
             newContent == newContentOf(tr, st.text.lastProcessedRef)
         IN  IF tr = st.text.lastProcessedRef \/ newContent = <<>> THEN st1
             ELSE IF feedTriggers(newContent)
                  THEN translateText([st1 EXCEPT !.text.lastProcessedRef = tr], newContent)
                  ELSE st1

\* blocked: the handler needs more requests than MaxRequests
Here == [text |-> text, requests |-> requests, blocked |-> FALSE]

\* feedTranscript
FeedTranscript(tr) ==
    /\ LET st == IF ~text.isActiveRef \/ ~text.useExternalTranscriptRef THEN Here
                 ELSE processTranscript([Here EXCEPT !.text.sinceActivity = 0], tr)
       IN  ~st.blocked /\ text' = st.text /\ requests' = st.requests
    /\ lastEvent' = "FeedTranscript"
    /\ UNCHANGED <<trackVars, orchVars, live, omni, pipeline, plex>>

\* recognition.onresult of the pipeline's own recognition
TextOnResult(tr) ==
    /\ text.recognitionRef
    /\ LET st == processTranscript([Here EXCEPT !.text.sinceActivity = 0], tr)
       IN  ~st.blocked /\ text' = st.text /\ requests' = st.requests
    /\ lastEvent' = "TextOnResult"
    /\ UNCHANGED <<trackVars, orchVars, live, omni, pipeline, plex>>

\* the interval callback (every 500 ms while isActive)
intervalCallback(st) ==
    LET t == st.text
        newContent == trim(slice(t.fullTranscriptRef, Len(t.lastProcessedRef)))
        st1 == IF /\ t.sinceProcessed >= TimeTriggerMs
                  /\ Len(t.fullTranscriptRef) > Len(t.lastProcessedRef)
                  /\ newContent # <<>>
                  /\ wordCount(newContent) >= MinWordsOnTimer
               THEN translateText([st EXCEPT !.text.lastProcessedRef = t.fullTranscriptRef],
                                  newContent)
               ELSE st
    IN  IF st1.text.sinceActivity > HealthCheckMs /\ st1.text.isActiveRef
        THEN [st1 EXCEPT !.text = [startRecognition(st1.text) EXCEPT !.sinceActivity = 0]]
        ELSE st1

\* 500 ms pass
aged(st) ==
    [st EXCEPT !.text.sinceProcessed = AgeAfter(@, StuckThresholdMs),
               !.text.sinceActivity = AgeAfter(@, HealthCheckMs),
               !.requests = [x \in Requests |->
                               [@[x] EXCEPT !.abortIn = Max(@ - TickMs, 0)]]]

RECURSIVE afterIntervals(_, _)
\* n periods of the interval pass; its callback runs at the end of each one
\* while the interval is registered
afterIntervals(st, n) ==
    IF n = 0 THEN st
    ELSE CHOOSE after \in {afterIntervals(cb, n - 1) :
                              cb \in {IF older.text.isActive /\ mounted
                                       THEN intervalCallback(older) ELSE older :
                                       older \in {aged(st)}}} : TRUE

\* IntervalsPerTick periods of the interval pass with no other event between
Tick ==
    /\ \E st \in {afterIntervals(Here, IntervalsPerTick)} :
          ~st.blocked /\ text' = st.text /\ requests' = st.requests
    /\ lastEvent' = "Tick"
    /\ UNCHANGED <<trackVars, orchVars, live, omni, pipeline, plex>>

\* a chunk of the translation stream arrives, with text chunkText
\* (chunk.text || '')
RequestChunk(r, chunkText) ==
    /\ requests[r].state = "running"
    /\ text.sinceActivity # 0 \/ chunkText # <<>>
    /\ chunkText # <<>> => /\ text.translatedText # Unobserved
                           /\ Len(text.translatedText) + Len(chunkText) <= MaxShown
                           /\ Len(requests[r].fullTranslation) + Len(chunkText) <= MaxShown
    /\ text' = Committed(text, [text EXCEPT !.sinceActivity = 0,
                                            !.translatedText = shownWith(@, chunkText)],
                         TextFlags)
    /\ requests' = [requests EXCEPT ![r].fullTranslation = @ \o chunkText]
    /\ lastEvent' = "RequestChunk"
    /\ UNCHANGED <<trackVars, orchVars, live, omni, pipeline, plex>>

\* the request's 15 s timer fires: abortController.abort().  The controller's
\* signal was not handed to generateContentStream, so the call goes on.
AbortTimerFires(r) ==
    /\ requests[r].state = "running"
    /\ requests[r].abortIn = 0 /\ ~requests[r].aborted
    /\ requests' = [requests EXCEPT ![r].aborted = TRUE]
    /\ lastEvent' = "AbortTimerFires"
    /\ UNCHANGED <<trackVars, orchVars, live, text, omni, pipeline, plex>>

\* an end of stream that appends no separator
streamEnded_noSeparator(t, fullTranslation, spoken) ==
    IF spoken
    THEN processQueue([t EXCEPT !.utterances = @ + 1,
                                !.ttsQueueRef = Append(@, [id |-> t.utterances + 1,
                                                           text |-> trim(fullTranslation)])])
    ELSE t

\* the try block after the loop: the separator, then the push and processQueue
streamEnded(t, fullTranslation, spoken) ==
    LET t1 == [t EXCEPT !.translatedText = shownWith(@, <<" ">>)]
    IN  IF spoken
        THEN processQueue([t1 EXCEPT !.utterances = @ + 1,
                                     !.ttsQueueRef = Append(@, [id |-> t.utterances + 1,
                                                                text |-> trim(fullTranslation)])])
        ELSE t1

\* the stream ends: the rest of the try block, then finally.  spoken: the
\* translation, trimmed, is not empty, so it is pushed on the TTS queue (an
\* input where the texts of the chunks are not followed)
RequestCompletes(r, spoken) ==
    /\ requests[r].state = "running"
    /\ spoken => text.utterances < MaxUtterances
    /\ text.translatedText # Unobserved
          => /\ spoken = (trim(requests[r].fullTranslation) # <<>>)
             /\ Len(text.translatedText) < MaxShown
    /\ text' = Committed(text,
                 [streamEnded(text, requests[r].fullTranslation, spoken)
                      EXCEPT !.isTranslatingRef = FALSE, !.sinceActivity = 0],
                 TextFlags)
    /\ requests' = [requests EXCEPT ![r] = NoRequest]
    /\ lastEvent' = "RequestCompletes"
    /\ UNCHANGED <<trackVars, orchVars, live, omni, pipeline, plex>>

\* recognition.onerror of the pipeline's own recognition.  critical: the error
\* is none of no-speech, aborted, network
TextRecognitionError(critical) ==
    /\ text.recognitionRef
    /\ text' = Committed(text, [text EXCEPT !.sinceActivity = 0,
                                            !.error = IF critical THEN TRUE ELSE @],
                         TextFlags)
    /\ lastEvent' = "TextRecognitionError"
    /\ UNCHANGED <<trackVars, orchVars, live, omni, pipeline, plex, requests>>

\* the call throws: catch, then finally
RequestFails(r) ==
    /\ requests[r].state = "running"
    /\ text' = Committed(text, [text EXCEPT !.isTranslatingRef = FALSE, !.sinceActivity = 0,
                                            !.error = TRUE], TextFlags)
    /\ requests' = [requests EXCEPT ![r] = NoRequest]
    /\ lastEvent' = "RequestFails"
    /\ UNCHANGED <<trackVars, orchVars, live, omni, pipeline, plex>>

\* the utterance the speech engine is speaking: the engine takes them in the
\* order of speak()
EngineSpeaks(playing) ==
    {u \in playing : /\ u.mode = "browser" /\ ~u.cancelled
                     /\ \A v \in playing : (v.mode = "browser" /\ ~v.cancelled) => u.id <= v.id}

\* the await of processQueue ends (the audio has ended, the utterance has
\* ended or failed, or the call has thrown): finally
UtteranceEnds(id) ==
    /\ \E u \in text.playing :
          /\ u.id = id
          /\ u.mode = "browser" => (u.cancelled \/ u \in EngineSpeaks(text.playing))
          /\ LET t1 == [text EXCEPT !.playing = @ \ {u}, !.isTTSSpeakingRef = FALSE,
                                     !.isSpeaking = (text.ttsQueueRef # <<>>)]
             IN  text' = Committed(text, processQueue(t1), TextFlags)
    /\ lastEvent' = "UtteranceEnds"
    /\ UNCHANGED <<trackVars, orchVars, live, omni, pipeline, plex, requests>>

\* a caller invokes start(options)
StartText(ext, ttsMode) ==
    /\ text' = TextStart(text, [targetLanguage |-> "French", useExternalTranscript |-> ext,
                                ttsMode |-> ttsMode])
    /\ lastEvent' = "StartText"
    /\ UNCHANGED <<trackVars, orchVars, live, omni, pipeline, plex, requests>>

\* a caller invokes stop()
StopText ==
    /\ text' = TextStop(text)
    /\ lastEvent' = "StopText"
    /\ UNCHANGED <<trackVars, orchVars, live, omni, pipeline, plex, requests>>

\* ------------------------------------------------------------------------
\* Teleprompter: the translation start/stop effect and the controls
\* ------------------------------------------------------------------------
Pipes == [live |-> live, text |-> text, omni |-> omni, pipeline |-> pipeline, plex |-> plex]

Config == [showSubtitles |-> showSubtitles, translationMode |-> translationMode,
           targetLanguage |-> targetLanguage, voiceMode |-> voiceMode,
           pipelineAsrMode |-> pipelineAsrMode, isListening |-> isListening]

\* options that always ask for the pipeline's own recognition
textOptions_ownRecognition(cfg) == [targetLanguage |-> cfg.targetLanguage,
                                    useExternalTranscript |-> FALSE,
                                    ttsMode |-> cfg.voiceMode]

textOptions(cfg) == [targetLanguage |-> cfg.targetLanguage,
                     useExternalTranscript |-> cfg.isListening,
                     ttsMode |-> cfg.voiceMode]

pipelineOptions(cfg) == [targetLanguage |-> cfg.targetLanguage,
                         asrMode |-> cfg.pipelineAsrMode]

disconnectAll(P) ==
    [live |-> LiveDisconnect(P.live), text |-> TextStop(P.text),
     omni |-> OmniDisconnect(P.omni), pipeline |-> PipelineStop(P.pipeline),
     plex |-> PlexDisconnect(P.plex)]

\* the body of the translation start/stop effect
startStopEffect(P, cfg) ==
    IF ~cfg.showSubtitles THEN disconnectAll(P)
    ELSE CASE cfg.translationMode = "live" ->
                [P EXCEPT !.text = TextStop(@), !.omni = OmniDisconnect(@),
                          !.pipeline = PipelineStop(@), !.plex = PlexDisconnect(@),
                          !.live = LiveConnect(@)]
           [] cfg.translationMode = "text" ->
                [P EXCEPT !.live = LiveDisconnect(@), !.omni = OmniDisconnect(@),
                          !.pipeline = PipelineStop(@), !.plex = PlexDisconnect(@),
                          !.text = TextStart(@, textOptions(cfg))]
           [] cfg.translationMode = "local-omni" ->
                [P EXCEPT !.live = LiveDisconnect(@), !.text = TextStop(@),
                          !.pipeline = PipelineStop(@), !.plex = PlexDisconnect(@),
                          !.omni = OmniConnect(@)]
           [] cfg.translationMode = "local-pipeline" ->
                [P EXCEPT !.live = LiveDisconnect(@), !.text = TextStop(@),
                          !.omni = OmniDisconnect(@), !.plex = PlexDisconnect(@),
                          !.pipeline = PipelineStart(@, pipelineOptions(cfg))]
           [] cfg.translationMode = "personaplex" ->
                [P EXCEPT !.live = LiveDisconnect(@), !.text = TextStop(@),
                          !.omni = OmniDisconnect(@), !.pipeline = PipelineStop(@),
                          !.plex = PlexConnect(@)]

\* the calls of the effect in the order of the code: the cleanup of the
\* previous run, then the body
StopOf == [live |-> "disconnectLive", text |-> "stopTextTranslation",
           omni |-> "disconnectLocalOmni", pipeline |-> "stopLocalPipeline",
           plex |-> "disconnectPersonaPlex"]
StartOf == [live |-> "connectLive", text |-> "startTextTranslation",
            omni |-> "connectLocalOmni", pipeline |-> "startLocalPipeline",
            plex |-> "connectPersonaPlex"]
HookOf == [m \in Modes |->
              CASE m = "live" -> "live" [] m = "text" -> "text"
                [] m = "local-omni" -> "omni" [] m = "local-pipeline" -> "pipeline"
                [] m = "personaplex" -> "plex"]

disconnectAllCalls ==
    <<StopOf.live, StopOf.text, StopOf.omni, StopOf.pipeline, StopOf.plex>>

\* a body that starts the selected pipeline before it stops the others
bodyCalls_startFirst(cfg) ==
    IF ~cfg.showSubtitles THEN disconnectAllCalls
    ELSE <<StartOf[HookOf[cfg.translationMode]]>>
         \o SelectSeq(disconnectAllCalls,
                      LAMBDA c : c # StopOf[HookOf[cfg.translationMode]])

\* the body: the four other stops in the order of the code, then the start
bodyCalls(cfg) ==
    IF ~cfg.showSubtitles THEN disconnectAllCalls
    ELSE SelectSeq(disconnectAllCalls, LAMBDA c : c # StopOf[HookOf[cfg.translationMode]])
         \o <<StartOf[HookOf[cfg.translationMode]]>>

effectCalls(cfg) == disconnectAllCalls \o bodyCalls(cfg)

\* what one call does to the hooks
Call(P, c, cfg) ==
    CASE c = StopOf.live -> [P EXCEPT !.live = LiveDisconnect(@)]
      [] c = StopOf.text -> [P EXCEPT !.text = TextStop(@)]
      [] c = StopOf.omni -> [P EXCEPT !.omni = OmniDisconnect(@)]
      [] c = StopOf.pipeline -> [P EXCEPT !.pipeline = PipelineStop(@)]
      [] c = StopOf.plex -> [P EXCEPT !.plex = PlexDisconnect(@)]
      [] c = StartOf.live -> [P EXCEPT !.live = LiveConnect(@)]
      [] c = StartOf.text -> [P EXCEPT !.text = TextStart(@, textOptions(cfg))]
      [] c = StartOf.omni -> [P EXCEPT !.omni = OmniConnect(@)]
      [] c = StartOf.pipeline -> [P EXCEPT !.pipeline = PipelineStart(@, pipelineOptions(cfg))]
      [] c = StartOf.plex -> [P EXCEPT !.plex = PlexConnect(@)]

RECURSIVE Calls(_, _, _)
Calls(P, cs, cfg) ==
    IF cs = <<>> THEN P ELSE Calls(Call(P, Head(cs), cfg), Tail(cs), cfg)

\* the model has an attempt left for the pipeline the effect starts
CanStart(P, cfg) ==
    cfg.showSubtitles =>
        CASE cfg.translationMode = "live" -> HasFreeAttempt(P.live.att)
          [] cfg.translationMode = "local-pipeline" -> HasFreeAttempt(P.pipeline.att)
          [] cfg.translationMode = "personaplex" -> HasFreeAttempt(P.plex.att)
          [] OTHER -> TRUE

\* a dependency of the effect changed: its cleanup runs, then its body
RerunStartStopEffect(cfg) ==
    LET cleaned == disconnectAll(Pipes) IN
    /\ CanStart(cleaned, cfg)
    /\ LET P == startStopEffect(cleaned, cfg)
       IN  /\ live' = P.live
           /\ text' = P.text
           /\ omni' = P.omni
           /\ pipeline' = P.pipeline
           /\ plex' = P.plex

activeIsConnecting ==
    CASE translationMode = "live" -> live.isConnecting
      [] translationMode = "local-omni" -> omni.isConnecting
      [] translationMode = "personaplex" -> plex.isConnecting
      [] OTHER -> FALSE

\* onClick={() => setShowSubtitles(!showSubtitles)}
ToggleSubtitles ==
    /\ mounted /\ ~activeIsConnecting
    /\ showSubtitles' = ~showSubtitles
    /\ RerunStartStopEffect([Config EXCEPT !.showSubtitles = ~showSubtitles])
    /\ lastEvent' = "ToggleSubtitles"
    /\ userEvents < MaxUserEvents /\ userEvents' = userEvents + 1
    /\ UNCHANGED <<trackVars, mounted, translationMode, targetLanguage, voiceMode,
                   pipelineAsrMode, isListening, speech, restartTimers, requests>>

\* onClick={() => setTranslationMode(m)}
SelectMode(m) ==
    /\ mounted /\ ~showSubtitles /\ m # translationMode
    /\ translationMode' = m
    /\ RerunStartStopEffect([Config EXCEPT !.translationMode = m])
    /\ lastEvent' = "SelectMode"
    /\ userEvents < MaxUserEvents /\ userEvents' = userEvents + 1
    /\ UNCHANGED <<trackVars, mounted, showSubtitles, targetLanguage, voiceMode,
                   pipelineAsrMode, isListening, speech, restartTimers, requests>>

\* onClick={() => setPipelineAsrMode(m)}
SelectAsr(m) ==
    /\ mounted /\ ~showSubtitles /\ translationMode = "local-pipeline" /\ m # pipelineAsrMode
    /\ pipelineAsrMode' = m
    /\ RerunStartStopEffect([Config EXCEPT !.pipelineAsrMode = m])
    /\ lastEvent' = "SelectAsr"
    /\ userEvents < MaxUserEvents /\ userEvents' = userEvents + 1
    /\ UNCHANGED <<trackVars, mounted, showSubtitles, translationMode, targetLanguage,
                   voiceMode, isListening, speech, restartTimers, requests>>

\* onClick={() => setVoiceMode(m)}
SelectVoice(m) ==
    /\ mounted /\ ~showSubtitles /\ translationMode = "text" /\ m # voiceMode
    /\ voiceMode' = m
    /\ RerunStartStopEffect([Config EXCEPT !.voiceMode = m])
    /\ lastEvent' = "SelectVoice"
    /\ userEvents < MaxUserEvents /\ userEvents' = userEvents + 1
    /\ UNCHANGED <<trackVars, mounted, showSubtitles, translationMode, targetLanguage,
                   pipelineAsrMode, isListening, speech, restartTimers, requests>>

\* onChange={(e) => setTargetLanguage(e.target.value)}
SelectLanguage(lang) ==
    /\ mounted /\ showSubtitles /\ ~activeIsConnecting /\ lang # targetLanguage
    /\ targetLanguage' = lang
    /\ RerunStartStopEffect([Config EXCEPT !.targetLanguage = lang])
    /\ lastEvent' = "SelectLanguage"
    /\ userEvents < MaxUserEvents /\ userEvents' = userEvents + 1
    /\ UNCHANGED <<trackVars, mounted, showSubtitles, translationMode, voiceMode,
                   pipelineAsrMode, isListening, speech, restartTimers, requests>>

\* isListening of useSpeechRecognition changes: the tracking-change effect
renderListening(b) ==
    /\ isListening' = b
    /\ IF showSubtitles /\ translationMode = "text"
       THEN /\ Len(restartTimers) < MaxTimers
            /\ text' = TextStop(text)
            /\ restartTimers' = Append(restartTimers,
                                       textOptions([Config EXCEPT !.isListening = b]))
       ELSE UNCHANGED <<text, restartTimers>>

SetListening(b) ==
    /\ mounted /\ b # isListening
    /\ renderListening(b)
    /\ lastEvent' = "SetListening"
    /\ userEvents < MaxUserEvents /\ userEvents' = userEvents + 1
    /\ UNCHANGED <<trackVars, mounted, showSubtitles, translationMode, targetLanguage,
                   voiceMode, pipelineAsrMode, speech, live, omni, pipeline, plex, requests>>

\* ------------------------------------------------------------------------
\* useSpeechRecognition
\* ------------------------------------------------------------------------
\* recognitionRef: the ref holds a recognition object (the browser has one);
\* engine: the session of the recognition object, "idle" before start() and
\* after the end event, "starting" from start() to the start event, "running"
\* after it, "ending" when only the end event is still to come;
\* lastError: the error of the last error event since the user last asked
\* for listening (history)
SpeechInit == [recognitionRef |-> TRUE, shouldBeListeningRef |-> FALSE, engine |-> "idle",
               lastError |-> "none"]

DeniedErrors == {"not-allowed", "service-not-allowed"}
RecognitionErrors == {"no-speech", "network"} \cup DeniedErrors
ErrorEvent == [e \in RecognitionErrors |->
                 CASE e = "no-speech"           -> "RecognitionOnError_noSpeech"
                   [] e = "network"             -> "RecognitionOnError_network"
                   [] e = "not-allowed"         -> "RecognitionOnError_notAllowed"
                   [] e = "service-not-allowed" -> "RecognitionOnError_serviceNotAllowed"]

\* what the handlers of the hook read and write
Hook == [shouldBeListeningRef |-> speech.shouldBeListeningRef, isListening |-> isListening,
         engine |-> speech.engine]

\* recognition.start() throws InvalidStateError while a session is under way
startThrows(engine) == engine # "idle"
\* recognition.stop(): the session under way comes to its end event
stopped(engine) == IF engine \in {"starting", "running"} THEN "ending" ELSE engine

\* setIsListening(b) and the render it causes; nothing on an unmounted
\* component or when the value is the same
setIsListening(b) ==
    IF mounted /\ b # isListening THEN renderListening(b)
    ELSE UNCHANGED <<isListening, text, restartTimers>>

\* startListening, of the render in which isListening is h.isListening
startListening(h, recognitionRef) ==
    IF recognitionRef /\ ~h.isListening
    THEN [h EXCEPT !.shouldBeListeningRef = TRUE,
                   !.engine = IF startThrows(@) THEN @ ELSE "starting"]
    ELSE h

stopListening(h, recognitionRef) ==
    IF recognitionRef
    THEN [h EXCEPT !.shouldBeListeningRef = FALSE, !.engine = stopped(@)]
    ELSE h

\* an error handler that treats a denied permission like any other error
onerror_logsOnly(h, error) == h

\* recognition.onerror
onerror(h, error) ==
    IF error = "no-speech" THEN h
    ELSE IF error \in DeniedErrors
         THEN [h EXCEPT !.shouldBeListeningRef = FALSE, !.isListening = FALSE]
         ELSE h

\* an end handler that never restarts
onend_neverRestarts(h, throws) ==
    [h EXCEPT !.isListening = FALSE, !.shouldBeListeningRef = FALSE]

\* recognition.onend, the session being over; throws: recognition.start()
\* throws
onend(h, throws) ==
    IF h.shouldBeListeningRef
    THEN IF throws
         THEN [h EXCEPT !.isListening = FALSE, !.shouldBeListeningRef = FALSE]
         ELSE [h EXCEPT !.engine = "starting"]
    ELSE [h EXCEPT !.isListening = FALSE]

\* the hook after a handler that left it as h
speechAfter(h, lastError) ==
    [speech EXCEPT !.shouldBeListeningRef = h.shouldBeListeningRef, !.engine = h.engine,
                   !.lastError = lastError]

SpeechFrame ==
    UNCHANGED <<trackVars, mounted, showSubtitles, translationMode, targetLanguage, voiceMode,
                pipelineAsrMode, userEvents, live, omni, pipeline, plex, requests>>

\* the tracking button or the space key while not listening:
\* isListening ? stopListening : startListening
StartListening ==
    /\ mounted /\ ~isListening
    /\ userEvents < MaxUserEvents
    /\ speech' = speechAfter(startListening(Hook, speech.recognitionRef), "none")
    /\ lastEvent' = "StartListening"
    /\ userEvents' = userEvents + 1
    /\ UNCHANGED <<trackVars, mounted, showSubtitles, translationMode, targetLanguage,
                   voiceMode, pipelineAsrMode, isListening, restartTimers,
                   live, text, omni, pipeline, plex, requests>>

\* the tracking button or the space key while listening
StopListening ==
    /\ mounted /\ isListening
    /\ userEvents < MaxUserEvents
    /\ speech' = speechAfter(stopListening(Hook, speech.recognitionRef), speech.lastError)
    /\ lastEvent' = "StopListening"
    /\ userEvents' = userEvents + 1
    /\ UNCHANGED <<trackVars, mounted, showSubtitles, translationMode, targetLanguage,
                   voiceMode, pipelineAsrMode, isListening, restartTimers,
                   live, text, omni, pipeline, plex, requests>>

\* the start event of the recognition object
RecognitionOnStart ==
    /\ speech.engine = "starting"
    /\ speech' = [speech EXCEPT !.engine = "running"]
    /\ setIsListening(TRUE)
    /\ lastEvent' = "RecognitionOnStart"
    /\ SpeechFrame

\* an error event of the recognition object; the session ends after it
RecognitionOnError(error) ==
    /\ speech.engine \in {"starting", "running"}
    /\ LET h == onerror([Hook EXCEPT !.engine = "ending"], error)
       IN  /\ speech' = speechAfter(h, error)
           /\ setIsListening(h.isListening)
    /\ lastEvent' = ErrorEvent[error]
    /\ SpeechFrame

\* the end event of the recognition object
RecognitionOnEnd(throws) ==
    /\ speech.engine \in {"running", "ending"}
    /\ throws => speech.shouldBeListeningRef
    /\ LET h == onend([Hook EXCEPT !.engine = "idle"], throws)
       IN  /\ speech' = speechAfter(h, speech.lastError)
           /\ setIsListening(h.isListening)
    /\ lastEvent' = IF throws THEN "RecognitionOnEnd_startThrew" ELSE "RecognitionOnEnd"
    /\ SpeechFrame

\* a result event of the recognition object
RecognitionOnResult(t) ==
    /\ speech.engine = "running"
    /\ SetTranscript(t)

\* the setTimeout(..., 100) callback of the tracking-change effect; the
\* showSubtitles and translationMode it tests are those of the render that
\* set the timer
RestartTimerFires ==
    /\ restartTimers # <<>>
    /\ text' = Committed(text, TextStart(text, Head(restartTimers)), TextFlags)
    /\ restartTimers' = Tail(restartTimers)
    /\ lastEvent' = "RestartTimerFires"
    /\ UNCHANGED userEvents
    /\ UNCHANGED <<trackVars, mounted, showSubtitles, translationMode, targetLanguage,
                   voiceMode, pipelineAsrMode, isListening, speech, live, omni, pipeline, plex,
                   requests>>

\* the Teleprompter unmounts: the cleanups of its effects
Unmount ==
    /\ mounted
    /\ mounted' = FALSE
    /\ LET P == disconnectAll(Pipes)
       IN  /\ live' = P.live
           /\ text' = P.text
           /\ omni' = P.omni
           /\ pipeline' = P.pipeline
           /\ plex' = P.plex
    /\ speech' = speechAfter(stopListening(Hook, speech.recognitionRef), speech.lastError)
    /\ lastEvent' = "Unmount"
    /\ userEvents < MaxUserEvents /\ userEvents' = userEvents + 1
    /\ UNCHANGED <<trackVars, showSubtitles, translationMode, targetLanguage, voiceMode,
                   pipelineAsrMode, isListening, restartTimers, requests>>

\* ------------------------------------------------------------------------
\* Specifications
\* ------------------------------------------------------------------------
InitOrchestrator ==
    /\ mounted = TRUE
    /\ showSubtitles = FALSE
    /\ translationMode = "live"
    /\ targetLanguage = "French"
    /\ voiceMode = "browser"
    /\ pipelineAsrMode = "browser"
    /\ isListening = FALSE
    /\ speech = SpeechInit
    /\ restartTimers = <<>>
    /\ userEvents = 0

InitPipelines ==
    /\ live = LiveInit
    /\ text = TextInit
    /\ omni = OmniInit
    /\ pipeline = PipelineInit
    /\ plex = PlexInit
    /\ requests = [x \in Requests |-> NoRequest]

InitTracker ==
    /\ activeIndex = 0
    /\ transcript = <<>>
    /\ trackDirty = FALSE
    /\ lastEvent = "mount"
    /\ prevIndex = 0

\* the position tracker, over three scripts and both tracker variants
InitTrack ==
    /\ script \in 1..Len(Scripts)
    /\ variant \in {"three", "two"}
    /\ InitTracker
    /\ InitOrchestrator
    /\ InitPipelines

NextTrack ==
    \/ TrackingEffect
    \/ \E t \in Transcripts(script) : SetTranscript(t)
    \/ \E i \in 0..(Len(words) - 1) : ClickWord(i)
    \/ ArrowRight
    \/ ArrowLeft
    \/ Restart

SpecTrack == InitTrack /\ [][NextTrack]_vars

\* the translation session: the controls and the pipelines' callbacks
InitSession ==
    /\ script = 1
    /\ variant = "three"
    /\ InitTracker
    /\ InitOrchestrator
    /\ InitPipelines

NextSession ==
    \/ ToggleSubtitles
    \/ \E m \in Modes : SelectMode(m)
    \/ \E m \in {"browser", "local"} : SelectAsr(m)
    \/ \E m \in {"browser", "gemini"} : SelectVoice(m)
    \/ \E lang \in Languages : SelectLanguage(lang)
    \/ \E b \in BOOLEAN : SetListening(b)
    \/ RestartTimerFires
    \/ Unmount
    \/ \E a \in Attempts : LiveMicGranted(a)
    \/ \E a \in Attempts : LiveMicDenied(a)
    \/ \E a \in Attempts : LiveOnOpen(a)
    \/ \E a \in Attempts : LiveOnError(a)
    \/ \E a \in Attempts : LiveOnClose(a)
    \/ \E a \in Attempts : LiveOnAudio(a)
    \/ \E a \in Attempts : PlexMicGranted(a)
    \/ \E a \in Attempts : PlexMicDenied(a)
    \/ \E a \in Attempts : PlexOnOpen(a)
    \/ \E a \in Attempts : PlexOnError(a)
    \/ \E a \in Attempts : PlexOnClose(a)
    \/ \E a \in Attempts : PlexOnAudio(a)
    \/ \E a \in Attempts : PipelineOnOpen(a)
    \/ \E a \in Attempts : PipelineMicGranted(a)
    \/ \E a \in Attempts : PipelineMicDenied(a)
    \/ \E a \in Attempts : PipelineOnError(a)
    \/ \E a \in Attempts : PipelineOnClose(a)
    \/ \E a \in Attempts : PipelineOnAudio(a, 10)
    \/ OmniOnOpen
    \/ OmniOnClose

SpecSession == InitSession /\ [][NextSession]_vars

\* the segmenter of useTextTranslation, driven through the hook's interface
InitSeg == InitSession

\* start() is called as the Teleprompter calls it while tracking is on, with
\* the external transcript; the pipeline's own recognition then runs only
\* once the health check of the interval has started it
NextSeg ==
    \/ StartText(TRUE, "browser")
    \/ StopText
    \/ \E tr \in FeedTexts : FeedTranscript(tr)
    \/ \E tr \in FeedTexts : TextOnResult(tr)
    \/ Tick
    \/ \E r \in Requests : RequestChunk(r, <<>>)
    \/ \E r \in Requests : AbortTimerFires(r)
    \/ \E r \in Requests : RequestCompletes(r, FALSE)
    \/ \E r \in Requests : RequestFails(r)

SpecSeg == InitSeg /\ [][NextSeg]_vars

\* The segmenter fed from outside with its interval running: while the pipeline
\* is active its setInterval callback keeps being called, so time passing is
\* weakly fair.
\* the recognition engine reports the whole utterance, or, after it has reset,
\* the short one
TimerFeeds == {Utterance, ResetUtterance}

NextTimer ==
    \/ StartText(TRUE, "browser")
    \/ \E tr \in TimerFeeds : FeedTranscript(tr)
    \/ Tick
    \/ \E r \in Requests : RequestCompletes(r, FALSE)

SpecTimer == InitSeg /\ [][NextTimer]_vars /\ WF_vars(Tick)

\* The watermark diff of processTranscript, fed with transcripts that extend,
\* revise and reset one another; the long ones pass the 50 characters the
\* prefix comparison looks at.
\* "Hello there, how are you today friend, Hello there, how are you today friend"
LongTranscript == Utterance \o <<",", " ">> \o Utterance
\* tr with its k-th character misheard
Revised(tr, k) == [j \in 1..Len(tr) |-> IF j = k THEN "X" ELSE tr[j]]
\* the long transcript revised behind the compared prefix, and one word more
LateRevision == Revised(LongTranscript, PrefixBound + 10) \o <<" ", "o", "k">>
\* the long transcript revised inside the compared prefix, and one word more
EarlyRevision == Revised(LongTranscript, 3) \o <<" ", "o", "k">>
\* "so we go."
ResetSentence == ResetUtterance \o <<".">>

FeedCases == {WordPrefix(Utterance, 2), Utterance, LongTranscript, LateRevision,
              EarlyRevision, ResetUtterance, ResetSentence}

NextFeed ==
    \/ StartText(TRUE, "browser")
    \/ \E tr \in FeedCases : FeedTranscript(tr)
    \/ \E r \in Requests : RequestCompletes(r, FALSE)
    \/ \E r \in Requests : RequestFails(r)

SpecFeed == InitSeg /\ [][NextFeed]_vars

\* useSpeechRecognition driven by the tracking button and by the events of
\* the recognition object, in a browser with and without speech recognition
InitListen ==
    /\ script = 1
    /\ variant = "three"
    /\ InitTracker
    /\ mounted = TRUE
    /\ showSubtitles = FALSE
    /\ translationMode = "live"
    /\ targetLanguage = "French"
    /\ voiceMode = "browser"
    /\ pipelineAsrMode = "browser"
    /\ isListening = FALSE
    /\ speech \in {[SpeechInit EXCEPT !.recognitionRef = b] : b \in BOOLEAN}
    /\ restartTimers = <<>>
    /\ userEvents = 0
    /\ InitPipelines

NextListen ==
    \/ StartListening
    \/ StopListening
    \/ RecognitionOnStart
    \/ \E error \in RecognitionErrors : RecognitionOnError(error)
    \/ \E throws \in BOOLEAN : RecognitionOnEnd(throws)
    \/ RecognitionOnResult(<<L("a")>>)
    \/ TrackingEffect
    \/ Unmount

SpecListen == InitListen /\ [][NextListen]_vars

\* useLocalPipeline with its displayed translation followed: start, stop, the
\* socket's open and close, and the server's text messages
InitDraft ==
    /\ script = 1
    /\ variant = "three"
    /\ InitTracker
    /\ InitOrchestrator
    /\ live = LiveInit
    /\ text = TextInit
    /\ omni = OmniInit
    /\ pipeline = [PipelineInit EXCEPT !.translatedText = <<>>, !.committedTextRef = <<>>,
                                       !.draftTextRef = <<>>]
    /\ plex = PlexInit
    /\ requests = [x \in Requests |-> NoRequest]

NextDraft ==
    \/ StartPipeline
    \/ StopPipeline
    \/ \E a \in Attempts : PipelineOnOpen(a)
    \/ \E a \in Attempts : PipelineOnClose(a)
    \/ \E a \in Attempts, type \in TextMessageTypes, data \in MessageTexts :
           PipelineOnText(a, type, data)

SpecDraft == InitDraft /\ [][NextDraft]_vars

\* The translation stream of useTextTranslation with the displayed
\* translation followed: chunks with text, end of stream, failure
InitShow ==
    /\ script = 1
    /\ variant = "three"
    /\ InitTracker
    /\ InitOrchestrator
    /\ live = LiveInit
    /\ text = [TextInit EXCEPT !.translatedText = <<>>]
    /\ omni = OmniInit
    /\ pipeline = PipelineInit
    /\ plex = PlexInit
    /\ requests = [x \in Requests |-> NoRequest]

NextShow ==
    \/ ~text.isActiveRef /\ StartText(TRUE, "browser")
    \/ \E tr \in {Utterance, LongTranscript} : FeedTranscript(tr)
    \/ \E r \in Requests, chunkText \in ChunkTexts : RequestChunk(r, chunkText)
    \/ \E r \in Requests, spoken \in BOOLEAN : RequestCompletes(r, spoken)
    \/ \E r \in Requests : RequestFails(r)
    \/ \E id \in 1..MaxUtterances : UtteranceEnds(id)

SpecShow == InitShow /\ [][NextShow]_vars

\* The same with stop() and further start() calls while requests are in
\* flight; the display and the translations are kept shorter than MaxStale
MaxStale == 2

NextStale ==
    \/ StartText(TRUE, "browser")
    \/ StopText
    \/ FeedTranscript(Utterance)
    \/ \E r \in Requests :
          /\ Len(text.translatedText) < MaxStale
          /\ Len(requests[r].fullTranslation) < MaxStale
          /\ RequestChunk(r, <<"b">>)
    \/ \E r \in Requests, spoken \in BOOLEAN :
          /\ Len(text.translatedText) < MaxStale
          /\ RequestCompletes(r, spoken)
    \/ \E r \in Requests : RequestFails(r)
    \/ \E id \in 1..MaxUtterances : UtteranceEnds(id)

SpecStale == InitShow /\ [][NextStale]_vars

\* useGeminiLive and useLocalPipeline driven through connect/disconnect and
\* start/stop, with the callbacks of their attempts
NextConnect ==
    \/ ConnectLive
    \/ DisconnectLive
    \/ \E a \in Attempts : LiveMicGranted(a)
    \/ \E a \in Attempts : LiveMicDenied(a)
    \/ \E a \in Attempts : LiveOnOpen(a)
    \/ \E a \in Attempts : LiveOnError(a)
    \/ \E a \in Attempts : LiveOnClose(a)
    \/ StartPipeline
    \/ StopPipeline
    \/ \E a \in Attempts : PipelineOnOpen(a)
    \/ \E a \in Attempts : PipelineOnError(a)
    \/ \E a \in Attempts : PipelineOnClose(a)

SpecConnect == InitSession /\ [][NextConnect]_vars

\* Live, local pipeline and text pipeline running side by side under the
\* tracker, with the error events of each
NextFaults ==
    \/ ConnectLive
    \/ \E a \in Attempts : LiveMicGranted(a)
    \/ \E a \in Attempts : LiveOnOpen(a)
    \/ \E a \in Attempts : LiveOnError(a)
    \/ StartPipeline
    \/ \E a \in Attempts : PipelineOnOpen(a)
    \/ \E a \in Attempts : PipelineOnError(a)
    \/ StartText(FALSE, "browser")
    \/ TextOnResult(Utterance)
    \/ \E critical \in BOOLEAN : TextRecognitionError(critical)
    \/ \E r \in Requests : RequestFails(r)
    \/ SetTranscript(<<L("a"), <<"B", ",">>>>)
    \/ TrackingEffect

SpecFaults == InitSession /\ [][NextFaults]_vars

\* the TTS queue of useTextTranslation: translations that complete are
\* spoken with the browser voice or the Gemini voice
NextTts ==
    \/ \E ttsMode \in {"browser", "gemini"} : StartText(TRUE, ttsMode)
    \/ StopText
    \/ \E tr \in TimerFeeds : FeedTranscript(tr)
    \/ \E r \in Requests, spoken \in BOOLEAN : RequestCompletes(r, spoken)
    \/ \E id \in 1..MaxUtterances : UtteranceEnds(id)

SpecTts == InitSeg /\ [][NextTts]_vars

\* the playback queue of useLocalPipeline, driven through the hook's interface
\* and its socket's and sources' callbacks
NextPlayback ==
    \/ StartPipeline
    \/ StopPipeline
    \/ \E a \in Attempts : PipelineOnOpen(a)
    \/ \E a \in Attempts : PipelineOnClose(a)
    \/ \E a \in Attempts, d \in ClipDurations : PipelineOnAudio(a, d)
    \/ \E k \in 1..MaxClips : PipelineSourceEnded(k)
    \/ PlaybackTimePasses

SpecPlayback == InitSession /\ [][NextPlayback]_vars

\* ------------------------------------------------------------------------
\* Position tracker: properties
\* ------------------------------------------------------------------------
ManualEvents == {"ClickWord", "ArrowRight", "ArrowLeft", "Restart"}

\* C1: over transcript updates and the tracker evaluations they cause, with
\* no manual navigation and no restart in between, the cursor never
\* decreases from one step to the next.
C1_AutoTrackingNeverDecreases ==
    lastEvent \in {"SetTranscript", "TrackingEffect"} => activeIndex >= prevIndex

C1_Witness == lastEvent = "TrackingEffect" /\ activeIndex > prevIndex

\* C2 (as stated): the cursor always designates an existing script word,
\* 0 <= activeIndex < number of script words.
C2_CursorDesignatesScriptWord == activeIndex \in 0..(Len(words) - 1)

\* C2 (amended): the cursor is within 0..number of script words; click,
\* arrow keys and restart leave it on an existing script word, and it is
\* one past the last word only once the tracker has matched the last word.
C2_CursorWithinScriptOrJustPastEnd ==
    /\ activeIndex \in 0..Len(words)
    /\ lastEvent \in ManualEvents => activeIndex \in 0..(Len(words) - 1)
    /\ (lastEvent = "TrackingEffect" /\ activeIndex # prevIndex /\ activeIndex = Len(words))
          => words[Len(words)] = lastWord(transcriptWords(transcript))

C2_Witness ==
    /\ lastEvent = "TrackingEffect"
    /\ activeIndex = Len(words)
    /\ prevIndex < activeIndex

\* C3: when an evaluation of the distance-gated tracker moves the cursor to
\* i + 1, script word i equals the last spoken word, and when i is 2 or more
\* words ahead of the old cursor the script word before it equals the
\* second-last spoken word, and when it is more than 10 ahead the script word
\* two before it also equals the third-last spoken word.
C3_DistanceGatedConfirmation ==
    (variant = "three" /\ lastEvent = "TrackingEffect" /\ activeIndex # prevIndex) =>
        LET tw == transcriptWords(transcript)
            n == Len(tw)
            i == activeIndex - 1
            distance == i - prevIndex
        IN  /\ n >= 1
            /\ distance >= 0
            /\ words[i + 1] = tw[n]
            /\ distance >= 2 => (n >= 2 /\ i >= 1 /\ words[i] = tw[n - 1])
            /\ distance > 10 => (n >= 3 /\ i >= 2 /\ words[i - 1] = tw[n - 2])

C3_Witness ==
    /\ variant = "three"
    /\ lastEvent = "TrackingEffect"
    /\ activeIndex - 1 - prevIndex > 10

\* ------------------------------------------------------------------------
\* Translation session: properties
\* ------------------------------------------------------------------------
Reports(m) ==
    CASE m = "live" -> live.isConnected
      [] m = "text" -> text.isActive
      [] m = "local-omni" -> omni.isConnected
      [] m = "local-pipeline" -> pipeline.isActive
      [] m = "personaplex" -> plex.isConnected

Reporting == {m \in Modes : Reports(m)}

\* C4: at every instant at most one of the five pipelines reports
\* connected/active.  Refuted: a local-pipeline socket that stop() left
\* connecting opens later and reports active next to the pipeline started since.
C4_AtMostOneReportsConnected == Cardinality(Reporting) <= 1

LiveReleased(l) ==
    /\ l.sessionRef = 0 /\ l.mediaStreamRef = 0
    /\ ~l.audioContextRef /\ ~l.playbackContextRef
    /\ ~l.isConnected /\ ~l.isConnecting

PlexReleased(x) ==
    /\ x.wsRef = 0 /\ x.mediaStreamRef = 0
    /\ ~x.audioContextRef /\ ~x.playbackContextRef
    /\ ~x.isConnected /\ ~x.isConnecting

PipelineReleased(q) ==
    /\ q.wsRef = 0 /\ q.mediaStreamRef = 0 /\ ~q.recognitionRef
    /\ ~q.audioContextRef /\ ~q.playbackContextRef
    /\ ~q.isActive /\ ~q.isActiveRef

TextReleased(t) ==
    /\ ~t.recognitionRef /\ ~t.isActive /\ ~t.isActiveRef /\ ~t.isSpeaking

\* C5: in every reachable state, stop/disconnect of a pipeline leaves each of
\* its resource slots (session or socket ref, microphone stream ref, capture
\* and playback context refs, recognition ref) empty and its status flags
\* false, a second call right after it changes nothing, and a call before any
\* start changes nothing at all.
C5_StopReleasesSlotsAndIsIdempotent ==
    /\ LiveReleased(LiveDisconnect(live))
    /\ LiveDisconnect(LiveDisconnect(live)) = LiveDisconnect(live)
    /\ LiveDisconnect(LiveInit) = LiveInit
    /\ PlexReleased(PlexDisconnect(plex))
    /\ PlexDisconnect(PlexDisconnect(plex)) = PlexDisconnect(plex)
    /\ PlexDisconnect(PlexInit) = PlexInit
    /\ PipelineReleased(PipelineStop(pipeline))
    /\ PipelineStop(PipelineStop(pipeline)) = PipelineStop(pipeline)
    /\ PipelineStop(PipelineInit) = PipelineInit
    /\ TextReleased(TextStop(text))
    /\ TextStop(TextStop(text)) = TextStop(text)
    /\ TextStop(TextInit) = TextInit

\* toggling off has just run disconnectAll twice in a row (the effect's cleanup,
\* then its body) over a session that held a microphone stream
C5_Witness ==
    /\ lastEvent = "ToggleSubtitles" /\ ~showSubtitles
    /\ LiveReleased(live) /\ PlexReleased(plex) /\ PipelineReleased(pipeline) /\ TextReleased(text)
    /\ \E a \in Attempts : live.att[a].stream = "stopped" \/ plex.att[a].stream = "stopped"
                           \/ pipeline.att[a].stream = "stopped"

AttemptsOf == [live |-> live.att, pipeline |-> pipeline.att, plex |-> plex.att]

\* C6: a start attempt that stop/disconnect caught partly done never
\* afterwards makes its pipeline connected/active and never holds a microphone
\* stream or an open socket.  Refuted: the connecting socket is not closed, and
\* the continuation after getUserMedia does not look at what stop did.
C6_AbandonedAttemptStaysDead ==
    \A p \in DOMAIN AttemptsOf : \A a \in Attempts :
        AttemptsOf[p][a].abandoned =>
            /\ ~AttemptsOf[p][a].openedAfterStop
            /\ AttemptsOf[p][a].stream # "live"
            /\ AttemptsOf[p][a].phase # "open"

Holds(p) == \E a \in Attempts : AttemptsOf[p][a].stream = "live" \/ AttemptsOf[p][a].phase = "open"

\* C7: at most one pipeline holds a microphone stream or an open network
\* session.  Refuted: what an abandoned attempt acquires late is held next to
\* what the pipeline started since holds.
C7_AtMostOneHolder == Cardinality({p \in DOMAIN AttemptsOf : Holds(p)}) <= 1

\* C8: while the toggle stays off, pipelines that all report not
\* connected/active go on doing so.  Refuted: the onopen of a socket that
\* stop() left connecting sets the local pipeline active with the toggle off.
C8_StaysIdleWhileToggledOff ==
    [][(~showSubtitles /\ ~showSubtitles' /\ Reporting = {}) => Reporting' = {}]_vars

\* ------------------------------------------------------------------------
\* Segmenter: properties
\* ------------------------------------------------------------------------
InFlight == {r \in Requests : requests[r].state = "running"}

\* C9: at most one translation request is in flight at any time.  Refuted:
\* stop() and start() clear the in-flight flag while the request goes on, so
\* the next trigger issues a second one.
C9_AtMostOneRequestInFlight == Cardinality(InFlight) <= 1

\* C10: when a trigger fires (the watermark moves) while the flag is held by
\* a request that has run for more than the stuck threshold, that trigger
\* issues its request.  Refuted: feedTranscript refreshes the activity time the
\* stuck test reads before the test runs.
C10_StuckRequestGivesWay ==
    [][(/\ lastEvent' \in {"FeedTranscript", "TextOnResult", "Tick"}
        /\ text'.lastProcessedRef # text.lastProcessedRef
        /\ text.isTranslatingRef
        /\ text.sinceProcessed > StuckThresholdMs)
       => \E r \in Requests : requests[r].state = "free" /\ requests'[r].state = "running"]_vars

TriggerFired ==
    /\ lastEvent' \in {"FeedTranscript", "TextOnResult", "Tick"}
    /\ text'.lastProcessedRef # text.lastProcessedRef

RequestIssued == \E r \in Requests : requests[r].state = "free" /\ requests'[r].state = "running"

\* C11: once the 15 s timer of every call still in flight has fired, the calls
\* are abandoned and the flag is clear, so a trigger that fires issues its
\* request.  Refuted: abort() reaches nothing, the call and the flag stay.
C11_TriggerProceedsAfterTimeout ==
    [][(/\ TriggerFired
        /\ InFlight # {}
        /\ \A r \in InFlight : requests[r].aborted)
       => RequestIssued]_vars

\* a feed the pipeline takes in: feedTranscript on an active pipeline in
\* external-transcript mode, or a result of its own recognition
FeedAccepted ==
    \/ lastEvent' = "FeedTranscript" /\ text.isActiveRef /\ text.useExternalTranscriptRef
    \/ lastEvent' = "TextOnResult"

\* the transcript of an accepted feed
Fed == text'.fullTranscriptRef

BoundaryMarks == {".", "!", "?", ",", ";", ":"}

\* the whitespace-delimited words of s, counted by their last characters
WordsIn(s) ==
    Cardinality({k \in 1..Len(s) : s[k] # " " /\ (k = Len(s) \/ s[k + 1] = " ")})

\* the trigger condition of a feed with transcript tr against watermark w
FeedFires(tr, w) ==
    LET nc == newContentOf(tr, w)
    IN  /\ tr # w /\ nc # <<>>
        /\ \/ \E k \in 1..Len(nc) : nc[k] \in BoundaryMarks
           \/ WordsIn(nc) >= 5

RECURSIVE watermarkAfter(_)
\* the watermark after the first n words of Utterance were fed one word at a
\* time to a fresh pipeline, every request having completed before the next feed
watermarkAfter(n) ==
    IF n = 0 THEN <<>>
    ELSE processTranscript([text |-> [TextInit EXCEPT !.isActiveRef = TRUE,
                                                      !.useExternalTranscriptRef = TRUE,
                                                      !.lastProcessedRef = watermarkAfter(n - 1)],
                            requests |-> [r \in Requests |-> NoRequest],
                            blocked |-> FALSE],
                           WordPrefix(Utterance, n)).text.lastProcessedRef

\* the feeds of the word-by-word utterance at which the trigger fired
firedAt == {n \in 1..7 : watermarkAfter(n) # watermarkAfter(n - 1)}

\* C12 as stated: on an accepted feed a translation request is issued exactly
\* when the new content holds one of . ! ? , ; : or at least 5 words; when it
\* is issued the watermark becomes the fed transcript, otherwise the watermark
\* stays.
C12_RequestIssuedExactlyOnTrigger ==
    [][FeedAccepted =>
          /\ RequestIssued <=> FeedFires(Fed, text.lastProcessedRef)
          /\ RequestIssued => text'.lastProcessedRef = Fed
          /\ ~RequestIssued => text'.lastProcessedRef = text.lastProcessedRef]_vars

\* C12 amended: on an accepted feed the trigger fires (the watermark becomes the
\* fed transcript and translation is attempted) exactly when the new content
\* holds one of . ! ? , ; : or at least 5 words, and the watermark stays
\* otherwise; a request is issued only by a firing trigger, and is issued
\* whenever the in-flight flag is clear.  Fed one word at a time with each
\* request completing in between, "Hello there, how are you today friend"
\* fires at the 2nd word ("there,") and at the 7th (five further words).
C12_TriggerFiresExactlyOnMarkOrFiveWords ==
    /\ firedAt = {2, 7}
    /\ [][FeedAccepted =>
             /\ FeedFires(Fed, text.lastProcessedRef) => text'.lastProcessedRef = Fed
             /\ ~FeedFires(Fed, text.lastProcessedRef)
                   => text'.lastProcessedRef = text.lastProcessedRef
             /\ RequestIssued => FeedFires(Fed, text.lastProcessedRef)
             /\ (FeedFires(Fed, text.lastProcessedRef) /\ ~text.isTranslatingRef)
                   => RequestIssued]_vars

\* the whole utterance has been handed over by a trigger of the word-count
\* branch or the comma, and a request for it is in flight
C12_Witness ==
    /\ lastEvent = "FeedTranscript"
    /\ text.lastProcessedRef = Utterance
    /\ InFlight # {}

\* the content of the current transcript not yet handed to translation, as a
\* feed would compute it
Unhanded == newContentOf(text.fullTranscriptRef, text.lastProcessedRef)

\* the timer has run over at least MinWordsOnTimer words that were never handed over
TimerPassedOverContent ==
    /\ lastEvent = "Tick"
    /\ text.isActive
    /\ text.fullTranscriptRef # text.lastProcessedRef
    /\ Unhanded # <<>> /\ WordsIn(Unhanded) >= 2

\* C13: while the text pipeline is active with at least 2 words not yet handed
\* to translation, and no feed, stop or start comes in, the interval eventually
\* hands that content over (the watermark reaches the current transcript),
\* also after the transcript was replaced by a shorter one.
C13_TimerEventuallyHandsOver ==
    TimerPassedOverContent
        ~> (lastEvent # "Tick" \/ text.lastProcessedRef = text.fullTranscriptRef)

\* the last three normalized words of a transcript (fewer if it has fewer)
LastThree(t) ==
    LET tw == transcriptWords(t)
    IN  SubSeq(tw, Max(1, Len(tw) - 2), Len(tw))

\* C14: an evaluation of the tracker yields the cursor that it yields for
\* every other transcript with the same last three normalized words, from
\* the same cursor on the same script: neither earlier words of the
\* transcript nor earlier transcripts influence it.
C14_TrackerReadsOnlyLastThreeWords ==
    [][lastEvent' = "TrackingEffect" =>
          \A t2 \in Transcripts(script) :
              LastThree(t2) = LastThree(transcript)
                  => activeIndex' = Track(variant, words, activeIndex, t2)]_vars

\* the tracker has moved the cursor more than 10 words ahead on a
\* transcript that holds a word before its last three
C14_Witness ==
    /\ variant = "three"
    /\ lastEvent = "TrackingEffect"
    /\ Len(transcriptWords(transcript)) > 3
    /\ activeIndex - 1 - prevIndex > 10

NavigationEvents == {"ClickWord", "ArrowRight", "ArrowLeft"}

\* C15: the tracker evaluation that follows a click or an arrow key, which
\* set the cursor to p, leaves the cursor at p or moves it past a script
\* word p..p+19 that equals the last spoken word, so to a value greater than
\* p; the cursor of before the navigation plays no part.
C15_TrackerSearchesForwardFromNavigatedCursor ==
    [][(lastEvent \in NavigationEvents /\ lastEvent' = "TrackingEffect") =>
          \/ activeIndex' = activeIndex
          \/ /\ activeIndex' > activeIndex
             /\ activeIndex' - 1 < activeIndex + searchWindow
             /\ words[activeIndex'] = lastWord(transcriptWords(transcript))]_vars

\* the user has navigated backwards to p, and the tracker evaluation this
\* has scheduled will move the cursor forward from p, short of where it was
C15_Witness ==
    /\ lastEvent \in {"ClickWord", "ArrowLeft"}
    /\ trackDirty
    /\ activeIndex < prevIndex
    /\ Track(variant, words, activeIndex, transcript) > activeIndex
    /\ Track(variant, words, activeIndex, transcript) < prevIndex

\* ------------------------------------------------------------------------
\* Playback queue: properties
\* ------------------------------------------------------------------------
ClipEnd(c) == c.start + c.duration

\* C16: every clip of the scheduled-ahead queue starts at the later of its
\* arrival and the end of the clip enqueued before it (the first at its
\* arrival), and nextPlayTime is the end of the last one; so clips play in
\* enqueue order and none starts before its predecessor ends.  Clips of 1.0,
\* 0.5 and 0.2 s that arrive together at t0 start at t0, t0 + 1.0, t0 + 1.5.
C16_ClipsPlayInOrderWithoutOverlap ==
    LET c == pipeline.clips
    IN  /\ \A k \in DOMAIN c :
               c[k].start = IF k = 1 THEN c[k].arrived
                            ELSE Max(c[k].arrived, ClipEnd(c[k - 1]))
        /\ \A k \in DOMAIN c : k > 1 => c[k].start >= ClipEnd(c[k - 1])
        /\ pipeline.nextPlayTimeRef = IF c = <<>> THEN 0 ELSE ClipEnd(c[Len(c)])
        /\ (/\ Len(c) = 3
            /\ c[1].duration = 10 /\ c[2].duration = 5 /\ c[3].duration = 2
            /\ c[2].arrived = c[1].arrived /\ c[3].arrived = c[1].arrived)
              => /\ c[1].start = c[1].arrived
                 /\ c[2].start = c[1].arrived + 10
                 /\ c[3].start = c[1].arrived + 15

\* clips of 1.0, 0.5 and 0.2 s have arrived together, the first of them
\* creating the playback context
C16_Witness ==
    LET c == pipeline.clips
    IN  /\ Len(c) = 3
        /\ c[1].duration = 10 /\ c[2].duration = 5 /\ c[3].duration = 2
        /\ c[2].arrived = c[1].arrived /\ c[3].arrived = c[1].arrived
        /\ c[3].start = c[1].arrived + 15

\* the scheduled clips whose onended has not run
Unfinished == {k \in DOMAIN pipeline.clips : ~pipeline.clips[k].ended}

BeingPlayed == {u \in text.playing : u.mode = "gemini"} \cup EngineSpeaks(text.playing)

\* C18: at most one utterance of the text pipeline is being synthesized or
\* played at a time, over enqueues, utterance ends, stop and start.
C18_AtMostOneUtteranceAtATime == Cardinality(BeingPlayed) <= 1

\* ------------------------------------------------------------------------
\* Restarting a pipeline: properties
\* ------------------------------------------------------------------------
\* an attempt whose session or microphone stream exists or is on its way and
\* has not been asked to close
Alive(r) ==
    \/ r.phase \in {"awaitMic", "connecting", "open"} /\ ~r.closeReq
    \/ r.stream \in {"pending", "live"}

\* C19: right after connect of useGeminiLive, or start of useLocalPipeline,
\* has been called, exactly one session of that pipeline exists, whatever
\* was running or connecting before the call.
C19_ExactlyOneSessionAfterStart ==
    /\ lastEvent = "ConnectLive" => Cardinality({a \in Attempts : Alive(live.att[a])}) = 1
    /\ lastEvent = "StartPipeline"
          => Cardinality({a \in Attempts : Alive(pipeline.att[a])}) = 1

\* ------------------------------------------------------------------------
\* Error events: properties
\* ------------------------------------------------------------------------
\* what a pipeline holds besides its flags and its attempts
LiveRefs == <<live.sessionRef, live.mediaStreamRef, live.audioContextRef,
              live.playbackContextRef>>
PipelineRefs == <<pipeline.wsRef, pipeline.mediaStreamRef, pipeline.audioContextRef,
                  pipeline.playbackContextRef, pipeline.recognitionRef,
                  pipeline.isActiveRef, pipeline.clips>>
TextRefs == <<text.isActive, text.isActiveRef, text.recognitionRef, text.lastProcessedRef,
              text.fullTranscriptRef, text.ttsQueueRef, text.playing>>

\* C20: an error event of the Live session, of the local pipeline's socket,
\* or of the text pipeline (recognition error, failed translation) leaves
\* the other pipelines, the cursor and the tracking transcript as they
\* were, and changes of its own pipeline only flags and the error slot: what
\* the pipeline holds stays.
C20_ErrorStaysInItsPipeline ==
    [][/\ lastEvent' = "LiveOnError"
             => /\ UNCHANGED <<text, omni, pipeline, plex, requests, activeIndex, transcript>>
                /\ UNCHANGED LiveRefs
       /\ lastEvent' = "PipelineOnError"
             => /\ UNCHANGED <<live, text, omni, plex, requests, activeIndex, transcript>>
                /\ UNCHANGED PipelineRefs
       /\ lastEvent' \in {"TextRecognitionError", "RequestFails"}
             => /\ UNCHANGED <<live, omni, pipeline, plex, activeIndex, transcript>>
                /\ UNCHANGED TextRefs]_vars

\* a translation has failed while the Live session is connected, the local
\* pipeline is active and the tracker has advanced
C20_Witness ==
    /\ lastEvent = "RequestFails"
    /\ text.error
    /\ live.isConnected
    /\ pipeline.isActive
    /\ activeIndex > 0

\* ------------------------------------------------------------------------
\* Failure and retry: properties
\* ------------------------------------------------------------------------
\* the events that end a failure of a socket: for the Live session the close
\* event that follows the error, for the two WebSocket hooks the error event
\* itself and the close event
FailureEnds ==
    [live |-> {"LiveOnClose"}, personaplex |-> {"PlexOnError", "PlexOnClose"}]

\* the toggle button is not disabled
ToggleEnabled == mounted /\ ~activeIsConnecting

\* the session the hook holds has failed: its socket is closed or closing
\* though no disconnect was asked for
SessionFailed(ref, att) == ref # 0 /\ att[ref].phase \in {"closing", "closed"}

QualifiedLast ==
    IF transcriptWords(transcript) = <<>> THEN {}
    ELSE Candidates(variant, words, prevIndex, transcriptWords(transcript))

\* "one two three four five nine"
FiveThenNine == <<L("a"), L("b"), L("c"), L("d"), L("e"), L("i")>>

\* C22: an evaluation of the tracker sets the cursor to i+1 for the lowest
\* index i that qualifies; when none qualifies ("one two three four five
\* nine" with the cursor at 2 on the script one..twelve) the cursor stays,
\* and a transcript that is empty or has no word left after cleaning is a
\* no-op.
C22_LowestQualifyingCandidateWins ==
    /\ (script = 2 /\ prevIndex = 2 /\ transcript = FiveThenNine
                   /\ lastEvent = "TrackingEffect") => activeIndex = 2
    /\ lastEvent = "TrackingEffect" =>
          /\ transcriptWords(transcript) = <<>> => activeIndex = prevIndex
          /\ QualifiedLast = {} => activeIndex = prevIndex
          /\ QualifiedLast # {} =>
                /\ activeIndex - 1 \in QualifiedLast
                /\ \A j \in QualifiedLast : activeIndex - 1 <= j

\* the phrase "a b c" was heard at the start of the long script, where it
\* qualifies at index 2 and again at index 14: the cursor went to 3
C22_Witness ==
    /\ lastEvent = "TrackingEffect"
    /\ variant = "three" /\ script = 3
    /\ prevIndex = 0
    /\ QualifiedLast = {2, 14}
    /\ activeIndex = 3

\* "d d e": the words at indices 20..22 of the long script, whose last word
\* occurs nowhere else
FarPhrase == <<L("d"), L("d"), L("e")>>

\* C23: an evaluation of the tracker accepts only an index i with
\* cursor <= i < min(cursor + 20, script length), so it moves the cursor
\* forward by at most 20; a candidate 20 words ahead is not accepted even
\* with three matching words.
C23_AcceptsOnlyWithinTwentyWords ==
    lastEvent = "TrackingEffect" =>
        /\ activeIndex - prevIndex <= 20
        /\ activeIndex # prevIndex =>
              /\ prevIndex <= activeIndex - 1
              /\ activeIndex - 1 < prevIndex + 20
              /\ activeIndex - 1 < Len(words)
        /\ (variant = "three" /\ script = 3 /\ transcript = FarPhrase /\ prevIndex <= 2)
              => activeIndex = prevIndex

\* the cursor is at 2 in the long script and "d d e" is heard, which ends at
\* index 22 with three matching words: 20 ahead, the cursor stays
C23_Witness ==
    /\ lastEvent = "TrackingEffect"
    /\ variant = "three" /\ script = 3
    /\ prevIndex = 2 /\ activeIndex = 2
    /\ transcript = FarPhrase
    /\ words[23] = lastWord(transcriptWords(transcript))
    /\ matchCount(words, 22, transcriptWords(transcript)) = 3

\* ------------------------------------------------------------------------
\* The start/stop effect: order of the calls
\* ------------------------------------------------------------------------
\* the controls whose change re-runs the start/stop effect
EffectEvents == {"ToggleSubtitles", "SelectMode", "SelectAsr", "SelectVoice", "SelectLanguage"}

Starts == {StartOf[h] : h \in DOMAIN StartOf}

\* the positions of the start calls in a sequence of calls
StartPositions(cs) == {k \in 1..Len(cs) : cs[k] \in Starts}

\* every pipeline's stop is called before position k
AllStoppedBefore(cs, k) ==
    \A h \in DOMAIN StopOf : \E j \in 1..(k - 1) : cs[j] = StopOf[h]

\* the stop of every pipeline but h is called before position k
OthersStoppedBefore(cs, k, h) ==
    \A o \in DOMAIN StopOf \ {h} : \E j \in 1..(k - 1) : cs[j] = StopOf[o]

\* C24: whenever the start/stop effect starts a pipeline (toggle switched
\* on, mode or configuration changed), it calls exactly one start, that of
\* the selected mode, after the stop/disconnect of all five pipelines (the
\* other four and the selected one's own previous session); with the toggle
\* off it calls no start.  The body of the effect by itself calls the stops
\* of the other four before the start.  The hooks' state after the step is
\* the result of these calls in this order.
C24_StopsBeforeStart ==
    [][lastEvent' \in EffectEvents =>
         LET cs == effectCalls(Config') IN
         /\ Pipes' = Calls(Pipes, cs, Config')
         /\ IF showSubtitles'
            THEN /\ Cardinality(StartPositions(cs)) = 1
                 /\ \A k \in StartPositions(cs) :
                        /\ cs[k] = StartOf[HookOf[translationMode']]
                        /\ AllStoppedBefore(cs, k)
                 /\ \A k \in StartPositions(bodyCalls(Config')) :
                        OthersStoppedBefore(bodyCalls(Config'), k, HookOf[translationMode'])
            ELSE StartPositions(cs) = {}]_vars

\* the language was changed while the Live session was open: the session was
\* told to close and a new attempt waits for the microphone
C24_Witness ==
    /\ lastEvent = "SelectLanguage"
    /\ showSubtitles /\ translationMode = "live"
    /\ \E a \in Attempts : live.att[a].phase = "closing" /\ live.att[a].closeReq
    /\ \E a \in Attempts : live.att[a].phase = "awaitMic"
    /\ live.sessionRef = 0

\* ------------------------------------------------------------------------
\* Configuration changes while the toggle is on
\* ------------------------------------------------------------------------
\* the sockets of the local pipeline that are open
OpenSockets == {a \in Attempts : pipeline.att[a].phase = "open"}

\* C25: while the toggle is on and the local pipeline is selected, every
\* open socket of the pipeline was started with the selected target language
\* and ASR sub-mode: a change tears the old session down before the new one
\* starts, so no session configured with the old values stays open.
C25_OpenSessionHasSelectedConfiguration ==
    (mounted /\ showSubtitles /\ translationMode = "local-pipeline")
        => \A a \in OpenSockets :
              /\ pipeline.att[a].targetLanguage = targetLanguage
              /\ pipeline.att[a].asrMode = pipelineAsrMode

\* ------------------------------------------------------------------------
\* The tracking-change effect
\* ------------------------------------------------------------------------
\* C26: a change of isListening while the toggle is on and the text mode is
\* selected stops the text pipeline in the same step and sets the 100 ms
\* timer, whose callback starts the pipeline with useExternalTranscript equal
\* to the flag's new value (and the language and voice of that render); a
\* change in another mode, or with the toggle off, changes no pipeline and
\* sets no timer.
C26_TrackingChangeRestartsTextPipeline ==
    [][/\ (lastEvent' = "SetListening" /\ showSubtitles /\ translationMode = "text")
             => /\ ~text'.isActive /\ ~text'.isActiveRef /\ ~text'.recognitionRef
                /\ Len(restartTimers') = Len(restartTimers) + 1
                /\ restartTimers'[Len(restartTimers')].useExternalTranscript = isListening'
                /\ restartTimers'[Len(restartTimers')].targetLanguage = targetLanguage
                /\ restartTimers'[Len(restartTimers')].ttsMode = voiceMode
                /\ UNCHANGED <<live, omni, pipeline, plex>>
       /\ (lastEvent' = "SetListening" /\ ~(showSubtitles /\ translationMode = "text"))
             => UNCHANGED <<live, text, omni, pipeline, plex, restartTimers>>
       /\ (lastEvent' = "RestartTimerFires" /\ mounted)
             => /\ text'.isActive /\ text'.isActiveRef
                /\ text'.useExternalTranscriptRef = Head(restartTimers).useExternalTranscript
                /\ text'.recognitionRef = ~Head(restartTimers).useExternalTranscript
                /\ restartTimers' = Tail(restartTimers)
                /\ UNCHANGED <<live, omni, pipeline, plex>>]_vars

\* tracking was switched on while the text pipeline ran with its own
\* recognition; the timer has fired and the pipeline takes the tracking
\* transcript
C26_Witness ==
    /\ lastEvent = "RestartTimerFires"
    /\ showSubtitles /\ translationMode = "text" /\ isListening
    /\ text.isActive /\ text.useExternalTranscriptRef /\ ~text.recognitionRef

\* ------------------------------------------------------------------------
\* The watermark diff: properties
\* ------------------------------------------------------------------------
\* tr extends the watermark w: it is at least as long and starts with the
\* first min(50, length) characters of w
Extends(tr, w) ==
    /\ Len(tr) >= Len(w)
    /\ \A k \in 1..Min(50, Len(w)) : tr[k] = w[k]

\* the part of the fed transcript the diff takes for new
NewPart(tr, w) ==
    IF Extends(tr, w) THEN [k \in 1..(Len(tr) - Len(w)) |-> tr[Len(w) + k]] ELSE tr

\* s without the blanks at its ends
Stripped(s) ==
    LET solid == {k \in 1..Len(s) : s[k] # " "}
    IN  IF solid = {} THEN <<>>
        ELSE LET lo == CHOOSE k \in solid : \A j \in solid : k <= j
                 hi == CHOOSE k \in solid : \A j \in solid : j <= k
             IN  [k \in 1..(hi - lo + 1) |-> s[lo + k - 1]]

\* C27 as stated: on an accepted feed the new content is the suffix of the
\* fed transcript beyond the watermark when the transcript extends the
\* watermark, and the entire fed transcript otherwise.
C27_NewContentIsSuffixOrWhole ==
    [][FeedAccepted =>
          newContentOf(Fed, text.lastProcessedRef) = NewPart(Fed, text.lastProcessedRef)]_vars

\* C27 amended: on an accepted feed the new content is that suffix, or that
\* entire transcript, with the whitespace at its ends removed; the watermark
\* becomes the fed transcript exactly when this content is not empty and
\* holds a boundary mark or five words, and stays otherwise.
C27_NewContentIsTrimmedSuffixOrWhole ==
    [][FeedAccepted =>
          LET w == text.lastProcessedRef
              nc == Stripped(NewPart(Fed, w))
          IN  /\ newContentOf(Fed, w) = nc
              /\ text'.lastProcessedRef =
                    IF /\ Fed # w /\ nc # <<>>
                       /\ \/ \E k \in 1..Len(nc) : nc[k] \in BoundaryMarks
                          \/ WordsIn(nc) >= 5
                    THEN Fed ELSE w]_vars

\* the long transcript was the watermark and its late revision with one more
\* word was fed: taken for an extension, its new content "ok" fired nothing
C27_Witness ==
    /\ lastEvent = "FeedTranscript"
    /\ text.isActiveRef /\ text.useExternalTranscriptRef
    /\ text.lastProcessedRef = LongTranscript
    /\ text.fullTranscriptRef = LateRevision
    /\ ~Extends(EarlyRevision, LongTranscript)
    /\ Extends(LateRevision, LongTranscript)

\* ---------------------------------------------------------------------------
\* the translations handed to speech synthesis and not yet finished: the TTS
\* queue and what processQueue has taken from it
Enqueued(t) ==
    {t.ttsQueueRef[k] : k \in 1..Len(t.ttsQueueRef)}
        \cup {[id |-> p.id, text |-> p.text] : p \in t.playing}

EndsWith(str, tail) ==
    /\ Len(tail) <= Len(str)
    /\ SubSeq(str, Len(str) - Len(tail) + 1, Len(str)) = tail

\* a chunk of request r arrives: its text goes to the end of the display
ChunkShown(r) ==
    \E chunkText \in ChunkTexts :
        /\ requests'[r].fullTranslation = requests[r].fullTranslation \o chunkText
        /\ text'.translatedText = text.translatedText \o chunkText
        /\ Enqueued(text') = Enqueued(text)

\* request r completes: the display is what it was with one space added and
\* ends with the chunks of r in their order; the trimmed translation is one
\* new entry of the queue, or none when it is empty
CompletionShown(r) ==
    LET full == requests[r].fullTranslation
    IN  /\ text'.translatedText = text.translatedText \o <<" ">>
        /\ EndsWith(text.translatedText, full)
        /\ IF trim(full) = <<>>
           THEN Enqueued(text') = Enqueued(text)
           ELSE \E e \in Enqueued(text') \ Enqueued(text) :
                    /\ e.text = trim(full)
                    /\ Enqueued(text') = Enqueued(text) \cup {e}
                    /\ Len(text'.ttsQueueRef) + Cardinality(text'.playing)
                           = Len(text.ttsQueueRef) + Cardinality(text.playing) + 1

\* request r fails: nothing is added to the display or to the queue
FailureShown(r) ==
    /\ text'.translatedText = text.translatedText
    /\ text'.ttsQueueRef = text.ttsQueueRef
    /\ text'.playing = text.playing

\* C28: when a translation request completes, its chunks have been appended
\* to the displayed translation in arrival order, exactly one space is
\* appended after them, and the trimmed translation is pushed on the TTS
\* queue exactly once, or not at all when it is empty; a failed request
\* appends no separator and enqueues nothing.
C28_CompletionAppendsSeparatorAndEnqueuesOnce ==
    [][\A r \in Requests :
          requests[r].state = "running" =>
            /\ (lastEvent' = "RequestChunk" /\ requests'[r] # requests[r]) => ChunkShown(r)
            /\ (lastEvent' = "RequestCompletes" /\ requests'[r].state = "free")
                  => CompletionShown(r)
            /\ (lastEvent' = "RequestFails" /\ requests'[r].state = "free")
                  => FailureShown(r)]_vars

\* the chunks "a " and "b" were streamed and the request completed: the
\* display is "a b " and "a b" is being spoken
C28_Witness ==
    /\ lastEvent = "RequestCompletes"
    /\ text.translatedText = <<"a", " ", "b", " ">>
    /\ \E p \in text.playing : p.text = <<"a", " ", "b">>

\* states of interest around C28
C28_BlankNotEnqueued ==
    /\ lastEvent = "RequestCompletes"
    /\ text.translatedText = <<" ", " ">>
    /\ text.playing = {}
C28_FailedAfterChunk ==
    /\ lastEvent = "RequestFails"
    /\ text.translatedText = <<"b">>
    /\ text.playing = {} /\ text.ttsQueueRef = <<>>
C28_SecondQueued ==
    /\ Len(text.ttsQueueRef) = 1 /\ text.playing # {}

\* ---------------------------------------------------------------------------
DeniedEvents == {ErrorEvent[e] : e \in DeniedErrors}
\* capture is stopped: no intent, no session starting or running
CaptureStopped ==
    /\ ~speech.shouldBeListeningRef
    /\ speech.engine \in {"idle", "ending"}

\* C29: after a permission-denied recognition error (not-allowed or
\* service-not-allowed) the listening intent is cleared and isListening is
\* false, and the following end event does not restart capture: capture
\* stays stopped until startListening is called again.
C29_DeniedStopsUntilStartListening ==
    /\ [](speech.lastError \in DeniedErrors => CaptureStopped /\ ~isListening)
    /\ [][/\ lastEvent' \in DeniedEvents
               => /\ speech'.lastError \in DeniedErrors
                  /\ ~speech'.shouldBeListeningRef /\ ~isListening'
          /\ (speech.lastError \in DeniedErrors /\ lastEvent' = "RecognitionOnEnd")
               => /\ speech'.engine = "idle"
                  /\ speech'.lastError = speech.lastError
          /\ (speech.lastError \in DeniedErrors /\ lastEvent' # "StartListening")
               => speech'.lastError = speech.lastError]_vars

\* the permission was denied while listening and the end event has come
C29_Witness ==
    /\ speech.lastError = "not-allowed"
    /\ lastEvent = "RecognitionOnEnd"
    /\ speech.engine = "idle"
    /\ ~speech.shouldBeListeningRef /\ ~isListening
    /\ mounted

\* the denial came on the first start, before any start event
C29_DeniedOnFirstStart ==
    /\ speech.lastError = "service-not-allowed"
    /\ lastEvent = ErrorEvent["service-not-allowed"]
    /\ userEvents = 1

\* C30: while the listening intent is set, a no-speech error changes no state
\* of the hook and every end event restarts capture; after stopListening the
\* next end event sets isListening to false and does not restart capture; if
\* the restart attempt throws, isListening and the intent both become false.
C30_EndRestartsWhileIntended ==
    [][/\ (speech.shouldBeListeningRef /\ lastEvent' = ErrorEvent["no-speech"])
            => /\ speech'.shouldBeListeningRef
               /\ isListening' = isListening
               /\ transcript' = transcript
               /\ speech'.recognitionRef = speech.recognitionRef
       /\ (speech.shouldBeListeningRef /\ lastEvent' = "RecognitionOnEnd")
            => /\ speech'.engine = "starting"
               /\ speech'.shouldBeListeningRef
               /\ isListening' = isListening
       /\ lastEvent' = "RecognitionOnEnd_startThrew"
            => /\ speech.shouldBeListeningRef
               /\ speech'.engine = "idle"
               /\ ~speech'.shouldBeListeningRef
               /\ ~isListening'
       /\ (lastEvent = "StopListening" /\ lastEvent' = "RecognitionOnEnd")
            => /\ ~isListening'
               /\ speech'.engine = "idle"
               /\ ~speech'.shouldBeListeningRef
       /\ (~speech.shouldBeListeningRef /\ lastEvent' = "RecognitionOnEnd")
            => /\ mounted => ~isListening'
               /\ speech'.engine = "idle"]_vars

\* a silence ended the session and capture was restarted while listening
C30_Witness ==
    /\ speech.lastError = "no-speech"
    /\ lastEvent = "RecognitionOnEnd"
    /\ speech.engine = "starting"
    /\ speech.shouldBeListeningRef /\ isListening

\* the restart threw
C30_RestartThrew ==
    /\ speech.lastError = "no-speech"
    /\ lastEvent = "RecognitionOnEnd_startThrew"
    /\ speech.engine = "idle"
    /\ ~speech.shouldBeListeningRef /\ ~isListening /\ mounted
    /\ userEvents = 1

\* ---------------------------------------------------------------------------
\* C31: in the local pipeline the displayed translation equals the committed
\* text followed by the draft text after every server message; a
\* translated_text_final message appends its text and one space to the
\* committed text and empties the draft; the committed text only grows by
\* appending within a session and is cleared only by start.
C31_DisplayIsCommittedThenDraft ==
    lastEvent = "PipelineOnText"
        => pipeline.translatedText = pipeline.committedTextRef \o pipeline.draftTextRef

\* the parts of C31 about the committed text: it grows by appending and
\* only start clears it
C31_CommittedOnlyGrows ==
    [][\/ \E tail \in {<<>>} \cup {d \o sp : d \in MessageTexts, sp \in {<<>>, <<" ">>}} :
             pipeline'.committedTextRef = pipeline.committedTextRef \o tail
       \/ lastEvent' = "StartPipeline" /\ pipeline'.committedTextRef = <<>>]_vars

\* a draft was shown and a translated_text message then left it out of the
\* display
C31_DraftDropped ==
    /\ lastEvent = "PipelineOnText"
    /\ pipeline.draftTextRef = <<"a">>
    /\ pipeline.committedTextRef = <<"b">>
    /\ pipeline.translatedText = <<"b">>

\* ---------------------------------------------------------------------------
\* the steps that end the rest after a restart: a transcript from the
\* recognition engine, or the user's navigation
TranscriptOrNavigation == {"SetTranscript", "ClickWord", "ArrowRight", "ArrowLeft"}

\* C32: the restart control sets the cursor to 0 and clears the tracking
\* transcript, after which the cursor stays 0 until a new non-empty
\* transcript arrives from the recognition engine or the user navigates.
C32_RestartHoldsCursorAtZero ==
    /\ [](lastEvent = "Restart" => activeIndex = 0 /\ transcript = <<>>)
    /\ [][(activeIndex = 0 /\ transcript = <<>> /\ lastEvent' \notin TranscriptOrNavigation)
              => (activeIndex' = 0 /\ transcript' = <<>>)]_vars
    /\ [][(transcript = <<>> /\ lastEvent' = "SetTranscript") => transcript' # <<>>]_vars

\* the restart control was used with the cursor inside the script and a
\* transcript present; the tracking effect it causes is still to run
C32_Witness ==
    /\ lastEvent = "Restart"
    /\ prevIndex > 0
    /\ activeIndex = 0
    /\ transcript = <<>>
    /\ trackDirty

\* the tracking effect has run after a restart and found nothing to do
C32_EffectAfterRestart ==
    /\ lastEvent = "TrackingEffect"
    /\ activeIndex = 0 /\ transcript = <<>> /\ ~trackDirty

\* ---------------------------------------------------------------------------
\* C33: the tracker is idempotent on an unchanged transcript: once an update
\* has moved the cursor, the re-run of the tracking effect that the change of
\* activeIndex causes, with the same transcript and the new cursor, leaves
\* the cursor where it is, for every script including scripts with repeated
\* words.
C33_TrackerIdempotent ==
    [][(/\ lastEvent = "TrackingEffect"
        /\ activeIndex # prevIndex
        /\ lastEvent' = "TrackingEffect")
          => activeIndex' = activeIndex]_vars

\* ---------------------------------------------------------------------------
\* C34: the segmenter loses no content: the watermark moves past a piece of
\* transcript only when a translation request carrying that piece is issued;
\* a trigger that fires while another request is in flight and is dropped
\* leaves the dropped content beyond the watermark.
C34_WatermarkMovesOnlyWithRequest ==
    [][(/\ text'.lastProcessedRef # text.lastProcessedRef
        /\ text'.lastProcessedRef # <<>>)
          => RequestIssued]_vars

\* ---------------------------------------------------------------------------
\* C35: after the text pipeline's stop(), a translation request that was in
\* flight at the time of the stop never appends to translatedText and never
\* enqueues or starts a TTS utterance, neither while the pipeline is stopped
\* nor after a later start() has cleared the displayed text.  A request that
\* runs while the pipeline is stopped was in flight at the stop: requests are
\* issued only while the pipeline is active.
C35_StaleRequestIsSilent ==
    [][(/\ lastEvent' \in {"RequestChunk", "RequestCompletes"}
        /\ ~text.isActiveRef)
          => /\ text'.translatedText = text.translatedText
             /\ text'.ttsQueueRef = text.ttsQueueRef
             /\ text'.playing = text.playing]_vars

\* ---------------------------------------------------------------------------
\* the session the hook's ref holds is open
CurrentOpen(ref, att) == ref # 0 /\ att[ref].phase = "open"

\* C36: a pipeline's reported connected/active flag is true whenever its
\* current session is open: the close, error and open callbacks of a session
\* superseded by stop or by a later start never change the flags that
\* describe the current session (local pipeline, PersonaPlex, Gemini Live).
C36_OpenSessionIsReported ==
    mounted =>
        /\ CurrentOpen(pipeline.wsRef, pipeline.att) => pipeline.isActive
        /\ CurrentOpen(plex.wsRef, plex.att) => plex.isConnected
        /\ CurrentOpen(live.sessionRef, live.att) => live.isConnected

\* ---------------------------------------------------------------------------
\* C37: the delayed restart scheduled by a tracking-flag change never starts
\* the text pipeline once the toggle has been turned off, the mode has been
\* changed or the teleprompter has unmounted during the 100 ms delay: when
\* the timer fires it starts the pipeline only if the toggle is on and the
\* current mode is text.
C37_TimerStartsOnlyIfStillWanted ==
    [][(/\ lastEvent' = "RestartTimerFires"
        /\ ~(mounted /\ showSubtitles /\ translationMode = "text"))
          => ~text'.isActiveRef]_vars

\* ------------------------------------------------------------------------
\* The text pipeline's own recognition beside the tracking transcript
\* ------------------------------------------------------------------------
\* C38: while the text pipeline is active with useExternalTranscript = true,
\* its own speech recognition is not running, whatever the order of start(),
\* stop() and the pipeline's timers (the 30 s health check among them).
C38_ExternalTranscriptMeansNoRecognition ==
    (text.isActiveRef /\ text.useExternalTranscriptRef) => ~text.recognitionRef

\* ------------------------------------------------------------------------
\* The two connection flags
\* ------------------------------------------------------------------------
\* C39: in the Gemini Live and PersonaPlex pipelines isConnected and
\* isConnecting are never both true, whatever the order of connect,
\* disconnect and the open, close and error callbacks.
C39_ConnectedExcludesConnecting ==
    /\ ~(live.isConnected /\ live.isConnecting)
    /\ ~(plex.isConnected /\ plex.isConnecting)

\* ------------------------------------------------------------------------
\* The two-word tracker
\* ------------------------------------------------------------------------
\* the 0-based indices of the window at which the script has the last
\* spoken word
LastWordPlaces ==
    {i \in prevIndex..(Min(prevIndex + searchWindow, Len(words)) - 1) :
        words[i + 1] = transcriptWords(transcript)[Len(transcriptWords(transcript))]}

C40_LoneWordFromZero ==
    /\ variant = "two" /\ script = 2
    /\ lastEvent = "TrackingEffect"
    /\ prevIndex = 0
    /\ transcript = <<L("h")>>
    /\ activeIndex = 8

\* the cursor was at 2 and "eight" alone was heard: the cursor stayed
C40_LoneWordRefused ==
    /\ variant = "two" /\ script = 2
    /\ lastEvent = "TrackingEffect"
    /\ prevIndex = 2 /\ activeIndex = 2
    /\ transcript = <<L("h")>>
====
